---- MODULE Spec2Model ----
(***************************************************************************)
(* Verification model of the muffin kernel core:                           *)
(*   - the sparse physical frame allocator (PhysicalMemoryManager) behind  *)
(*     the two-stage MultiStageAllocator,                                  *)
(*   - the lock-free segmented slab (KernelSlab / Segment),                *)
(*   - the ELF loader (ElfLoader::load).                                   *)
(*                                                                         *)
(* Each subsystem has its own specification (SpecPhys, SpecSlab, SpecElf)  *)
(* over its own variables; the variables of the other subsystems stay at   *)
(* their idle values.                                                      *)
(*                                                                         *)
(* Addresses are byte addresses.  Indices (region_idx, frame_idx, segment  *)
(* numbers) are 0-based as in the source; a TLA+ sequence s holds index i  *)
(* at s[i + 1].  Option<T> is the empty sequence (None) or a one-element   *)
(* sequence (Some).                                                        *)
(***************************************************************************)
EXTENDS Integers, Sequences, FiniteSets, TLC

VARIABLES
    \* --- physical memory (kernel/src/mem/phys.rs, kernel_physical_memory)
    stage,          \* MultiStageAllocator variant: "Stage1" or "Stage2"
    entries,        \* PhysicalBumpAllocator.regions: the firmware memory map
    next_frame,     \* PhysicalBumpAllocator.next_frame
    regions,        \* PhysicalMemoryManager.regions
    first_free,     \* PhysicalMemoryManager.first_free
    ret,            \* the last call and what it returned
    owned,          \* history: 4KiB unit address -> number of returned ranges that cover it and are still held
    stage1_held     \* history: addresses issued in stage 1 and not deallocated since

VARIABLES
    \* --- the PhysicalMemory facade (kernel/src/mem/phys.rs)
    lock,           \* the core that holds the PHYS_ALLOC mutex, Unlocked when none
    cores           \* per core: its position in a facade call, the call and its outcome

facadeVars == <<lock, cores>>

VARIABLES
    \* --- an allocation that is handed back at once
    trip            \* the manager before allocate_frames, and the range it returned

physVars == <<stage, entries, next_frame, regions, first_free, ret, owned, stage1_held,
              facadeVars, trip>>

VARIABLES
    \* --- slab (kernel_slab)
    slab_state,     \* "alive", "dropping" (KernelSlab is being dropped) or "dropped"
    seg_next,       \* Segment.next_segment of every segment, Null when not linked
    allocs,         \* number of segments Box::new has allocated so far
    frees,          \* per heap segment: how many times its Box was freed
    links,          \* history: the pairs <<s, n>> ever stored into s.next_segment
    th,             \* per thread: the call in progress and its local variables
    slab_ret,       \* the last call that returned and what it returned
    drop_stack      \* the Segment::drop calls in progress, innermost last

VARIABLES
    \* --- publication of one segment through head.next_segment (segment.rs)
    head_next,      \* the pointer in memory: Null or the thread whose segment is linked
    seg_mem,        \* per thread's new segment and slot: the slot's contents in memory
    store_buf,      \* per thread: its writes to slots that have not reached memory yet
    pub             \* per thread: position in Segment::next, the segment it got, what it read

pubVars == <<head_next, seg_mem, store_buf, pub>>

VARIABLES
    \* --- a slab used from one thread, with the contents of its slots (lib.rs)
    sq_n,           \* N, the number of slots of a segment of this slab
    sq_chain,       \* the segments in chain order, each one its array `elements`
    sq_written,     \* history: the slots a caller wrote through a reference from get
    sq_iter,        \* the live Iter: its segment (chain position) and its index
    sq_items,       \* history: the items the live Iter has yielded, in order
    sq_ret,         \* the last call that returned and what it returned
    sq_pc           \* the program using the slab: where it is, and its loop counter i

seqVars == <<sq_n, sq_chain, sq_written, sq_iter, sq_items, sq_ret, sq_pc>>

slabVars == <<slab_state, seg_next, allocs, frees, links, th, slab_ret, drop_stack, pubVars,
              seqVars>>

VARIABLES
    \* --- ELF loader (kernel_elfloader)
    elf_file,       \* the parsed ElfFile handed to ElfLoader::load
    elf_pc,         \* position of the load call
    elf_idx,        \* 1-based position in the file's LOAD headers
    elf_alloc,      \* the allocation of the segment being loaded
    image,          \* the ElfImage under construction
    mem_log,        \* the MemoryApi calls made so far, in order
    elf_result      \* what load returned, or how it panicked

VARIABLES
    \* --- ElfFile (kernel_elfloader, file.rs)
    file_ret        \* the last call on ElfFile: its arguments and what it returned

elfVars == <<elf_file, elf_pc, elf_idx, elf_alloc, image, mem_log, elf_result, file_ret>>

VARIABLES
    \* --- the file descriptors of one process (kernel/src/syscall/access.rs)
    fd_table,       \* Process.file_descriptors: the entries <<fd number, open file description>>
    fd_cores,       \* per core: its position in KernelAccess::open and the locals of the call
    fd_opened,      \* number of OpenFileDescriptions created so far
    fd_live,        \* history: the descriptors handed to the process and not closed since
    fd_ret          \* the last call that returned and what it returned

fdVars == <<fd_table, fd_cores, fd_opened, fd_live, fd_ret>>

vars == <<physVars, slabVars, elfVars, fdVars>>

----------------------------------------------------------------------------
(* Option<T> *)

None == <<>>

Some(v) == <<v>>

IsSome(o) == o # None

Unwrap(o) == o[1]

Min(a, b) == IF a <= b THEN a ELSE b

----------------------------------------------------------------------------
(* Page sizes.  x86_64 has 512 entries per page table, so a 2MiB frame is  *)
(* 512 4KiB frames and a 1GiB frame is 512 2MiB frames.  The model keeps   *)
(* the two-level structure and scales the fan-out down so that a region    *)
(* holding several huge frames stays small; every operator below is       *)
(* written in terms of S / Size4KiB exactly as the source is.              *)

PageTableFanout == 2

Size4KiB == 4096

Size2MiB == Size4KiB * PageTableFanout

Size1GiB == Size2MiB * PageTableFanout

PageSizes == {Size4KiB, Size2MiB, Size1GiB}

----------------------------------------------------------------------------
(* Bounds *)

\* frames of the larger region of a layout
RegionFrames == 4

\* largest n passed to allocate_frames
MaxN == 2

\* addresses passed to deallocate_frame lie in 0 .. MaxAddrFrames * 4KiB
MaxAddrFrames == 5

----------------------------------------------------------------------------
(* FrameState and MemoryRegion (kernel_physical_memory::region) *)

Unusable == "Unusable"

Allocated == "Allocated"

Free == "Free"

FrameState == {Unusable, Allocated, Free}

\* MemoryRegion::new(base, frame_count, initial_state)
MemoryRegionNew(base, count, state) ==
    [base |-> base, frames |-> [i \in 1..count |-> state]]

\* MemoryRegion::with_frames(base, states)
MemoryRegionWithFrames(base, states) ==
    [base |-> base, frames |-> states]

\* MemoryRegion::len
RegionLen(region) == Len(region.frames)

\* MemoryRegion::base_addr
base_addr(region) == region.base

\* region.frames()[idx]
FrameAt(region, idx) == region.frames[idx + 1]

\* MemoryRegion::frame_index: address -> local index, None when the address
\* is outside [base, base + len * 4KiB) or not frame-aligned relative to base
frame_index(region, addr) ==
    IF \/ addr < region.base
       \/ addr >= region.base + RegionLen(region) * Size4KiB
       \/ (addr - region.base) % Size4KiB # 0
    THEN None
    ELSE Some((addr - region.base) \div Size4KiB)

\* MemoryRegion::frame_address: the inverse of frame_index
frame_address(region, idx) ==
    IF idx >= 0 /\ idx < RegionLen(region)
    THEN Some(region.base + idx * Size4KiB)
    ELSE None

\* variant: the frame behind the range is filled as well
FillFramesOneMore(region, lo, hi, state) ==
    [region EXCEPT !.frames =
        [i \in 1..Len(region.frames) |->
            IF lo <= i - 1 /\ i - 1 <= hi + 1 THEN state ELSE region.frames[i]]]

\* frames_mut()[lo..=hi].fill(state)
FillFrames(region, lo, hi, state) ==
    [region EXCEPT !.frames =
        [i \in 1..Len(region.frames) |->
            IF lo <= i - 1 /\ i - 1 <= hi THEN state ELSE region.frames[i]]]

----------------------------------------------------------------------------
(* x86_64::structures::paging::PhysFrame *)

\* variant: the frame is built without the alignment check
from_start_address_unchecked(addr, S) == Some(addr)

\* PhysFrame::<S>::from_start_address(addr).ok(): None unless addr is S-aligned
from_start_address(addr, S) ==
    IF addr % S = 0 THEN Some(addr) ELSE None

\* PhysFrame::<S>::containing_address(addr): aligns down
containing_address(addr, S) == (addr \div S) * S

----------------------------------------------------------------------------
(* PhysicalMemoryManager *)

RegionFrameIndex(r, f) == [region_idx |-> r, frame_idx |-> f]

\* frames[start..].iter().position(|s| s == Free), as an index from 0
RECURSIVE PositionFree(_, _)
PositionFree(region, start) ==
    IF start >= RegionLen(region) THEN None
    ELSE IF FrameAt(region, start) = Free THEN Some(start)
    ELSE PositionFree(region, start + 1)

\* the loop of find_first_free_internal / the second loop of update_first_free
RECURSIVE FirstFreeFrom(_, _)
FirstFreeFrom(regs, region_idx) ==
    IF region_idx >= Len(regs) THEN None
    ELSE LET p == PositionFree(regs[region_idx + 1], 0) IN
         IF IsSome(p) THEN Some(RegionFrameIndex(region_idx, Unwrap(p)))
         ELSE FirstFreeFrom(regs, region_idx + 1)

find_first_free_internal(regs) == FirstFreeFrom(regs, 0)

\* PhysicalMemoryManager::new
PhysicalMemoryManagerNew(regs) ==
    [regions |-> regs, first_free |-> find_first_free_internal(regs)]

\* find_frame_location: the first region that contains the address
RECURSIVE FindFrameLocationFrom(_, _, _)
FindFrameLocationFrom(regs, addr, region_idx) ==
    IF region_idx >= Len(regs) THEN None
    ELSE LET fi == frame_index(regs[region_idx + 1], addr) IN
         IF IsSome(fi) THEN Some(RegionFrameIndex(region_idx, Unwrap(fi)))
         ELSE FindFrameLocationFrom(regs, addr, region_idx + 1)

find_frame_location(regs, addr) == FindFrameLocationFrom(regs, addr, 0)

\* update_first_free(start_region, start_index): the new value of first_free
update_first_free(regs, start_region, start_index) ==
    LET inRegion ==
            IF start_region < Len(regs) /\ start_index < RegionLen(regs[start_region + 1])
            THEN PositionFree(regs[start_region + 1], start_index)
            ELSE None
    IN  IF IsSome(inRegion)
        THEN Some(RegionFrameIndex(start_region, Unwrap(inRegion)))
        ELSE FirstFreeFrom(regs, start_region + 1)

\* lines 125-126: the number of 4KiB frames of one S frame
small_frames_per_frame(S) == S \div Size4KiB

\* lines 145-152: search_start aligned up to the page size, as a region-local index
aligned_search_start(search_start, sfpf) ==
    LET offset == search_start % sfpf IN
    IF offset = 0 THEN search_start ELSE search_start + (sfpf - offset)

\* variant: only the first frame of the run is tested
all_free_first_only(region, current_start, count) ==
    count = 0 \/ FrameAt(region, current_start) = Free

\* lines 158-160: frames[current_start .. current_start + count] are all Free
all_free(region, current_start, count) ==
    \A i \in current_start..(current_start + count - 1) : FrameAt(region, i) = Free

\* line 156: the run fits in the region
run_fits(region, current_start, count) ==
    current_start + count <= RegionLen(region)

\* lines 155-190: the while loop over aligned starts of one region;
\* Some(start) of the first run that fits and is all free, else None
RECURSIVE SearchRegion(_, _, _, _)
SearchRegion(region, current_start, sfpf, count) ==
    IF ~run_fits(region, current_start, count) THEN None
    ELSE IF all_free(region, current_start, count) THEN Some(current_start)
    ELSE SearchRegion(region, current_start + sfpf, sfpf, count)

\* lines 132-191: the for loop over the regions from the cached position
RECURSIVE SearchRegions(_, _, _, _, _)
SearchRegions(regs, region_idx, ff, sfpf, count) ==
    IF region_idx >= Len(regs) THEN None
    ELSE LET region == regs[region_idx + 1]
             search_start == IF region_idx = ff.region_idx THEN ff.frame_idx ELSE 0
         IN  IF search_start >= RegionLen(region)
             THEN SearchRegions(regs, region_idx + 1, ff, sfpf, count)
             ELSE LET hit == SearchRegion(region,
                                          aligned_search_start(search_start, sfpf),
                                          sfpf, count)
                  IN  IF IsSome(hit)
                      THEN Some(RegionFrameIndex(region_idx, Unwrap(hit)))
                      ELSE SearchRegions(regs, region_idx + 1, ff, sfpf, count)

\* variant: the end of the range taken as the address one past the run
end_addr_exclusive(region, frame_end_idx, sfpf) ==
    Some(region.base + (frame_end_idx + 1) * Size4KiB)

\* lines 168-170: the address of the last S frame of the run
end_addr_of(region, frame_end_idx, sfpf) ==
    frame_address(region, (frame_end_idx \div sfpf) * sfpf)

\* variant: strict comparison, so a run starting at the cached position does
\* not refresh the cache
must_update_first_free_strict(region_idx, frame_start_idx, ff) ==
    region_idx = ff.region_idx /\ frame_start_idx < ff.frame_idx

\* line 177: the cached position lies in or before the allocated run
must_update_first_free(region_idx, frame_start_idx, ff) ==
    region_idx = ff.region_idx /\ frame_start_idx <= ff.frame_idx

\* lines 182-185: the returned range, None when an address is not S-aligned
range_of(start_addr, end_addr, S) ==
    IF IsSome(from_start_address(start_addr, S)) /\ IsSome(from_start_address(end_addr, S))
    THEN Some([start |-> start_addr, end |-> end_addr])
    ELSE None

\* The result of a manager call: the manager after it and the value returned.
\* panic marks a call that did not return.
Outcome(regs, ff, res, panic) ==
    [regions |-> regs, first_free |-> ff, res |-> res, panic |-> panic]

\* lines 162-186: a free run was found at (region_idx, current_start)
AllocateAt(regs, ff, region_idx, current_start, S, count) ==
    LET sfpf == small_frames_per_frame(S)
        region == regs[region_idx + 1]
        frame_start_idx == current_start
        frame_end_idx == current_start + count - 1
        start_addr == frame_address(region, frame_start_idx)
        end_addr == end_addr_of(region, frame_end_idx, sfpf)
        marked == [regs EXCEPT ![region_idx + 1] =
                        FillFrames(region, frame_start_idx, frame_end_idx, Allocated)]
        ff2 == IF must_update_first_free(region_idx, frame_start_idx, ff)
               THEN update_first_free(marked, region_idx, frame_end_idx + 1)
               ELSE Some(ff)
    IN  IF frame_end_idx < 0
        THEN \* n = 0 at index 0: `current_start + 0 - 1` underflows usize.  With
             \* overflow checks the call panics; without them the index wraps to
             \* usize::MAX, frame_address of it is None and `?` returns None.
             {Outcome(regs, Some(ff), None, TRUE), Outcome(regs, Some(ff), None, FALSE)}
        ELSE IF start_addr = None \/ end_addr = None
        THEN {Outcome(regs, Some(ff), None, FALSE)}
        ELSE {Outcome(marked, ff2, range_of(Unwrap(start_addr), Unwrap(end_addr), S), FALSE)}

\* allocate_frames_impl::<S>(n): the set of outcomes the build can produce
allocate_frames_impl(regs, ffopt, S, n) ==
    LET sfpf == small_frames_per_frame(S)
        count == n * sfpf
    IN  IF ffopt = None THEN {Outcome(regs, ffopt, None, FALSE)}
        ELSE LET ff == Unwrap(ffopt)
                 hit == SearchRegions(regs, ff.region_idx, ff, sfpf, count)
             IN  IF hit = None THEN {Outcome(regs, ffopt, None, FALSE)}
                 ELSE AllocateAt(regs, ff, Unwrap(hit).region_idx, Unwrap(hit).frame_idx, S, count)

\* variant: positions are compared inside one region only
is_before_first_free_same_region(loc, ffopt) ==
    IF ffopt = None THEN TRUE
    ELSE LET ff == Unwrap(ffopt) IN
         loc.region_idx = ff.region_idx /\ loc.frame_idx < ff.frame_idx

\* variant: every frame that is not Free may be deallocated
can_deallocate_not_free(state) == state # Free

\* variant: every usable frame may be deallocated
can_deallocate_usable(state) == state # Unusable

\* line 272: only an Allocated frame is deallocated
can_deallocate(state) == state = Allocated

\* variant: the cache takes the position of every frame that is freed
is_before_first_free_always(loc, ffopt) == TRUE

\* lines 276-282
is_before_first_free(loc, ffopt) ==
    IF ffopt = None THEN TRUE
    ELSE LET ff == Unwrap(ffopt) IN
         \/ loc.region_idx < ff.region_idx
         \/ (loc.region_idx = ff.region_idx /\ loc.frame_idx < ff.frame_idx)

\* <PhysicalMemoryManager as PhysicalFrameAllocator<Size4KiB>>::deallocate_frame
deallocate_frame_4k(regs, ffopt, addr) ==
    LET locopt == find_frame_location(regs, addr) IN
    IF locopt = None THEN Outcome(regs, ffopt, None, FALSE)
    ELSE LET loc == Unwrap(locopt)
             region == regs[loc.region_idx + 1]
         IN  IF can_deallocate(FrameAt(region, loc.frame_idx))
             THEN Outcome([regs EXCEPT ![loc.region_idx + 1] =
                               FillFrames(region, loc.frame_idx, loc.frame_idx, Free)],
                          IF is_before_first_free(loc, ffopt) THEN Some(loc) ELSE ffopt,
                          Some(addr), FALSE)
             ELSE Outcome(regs, ffopt, None, FALSE)

\* the loop of the Size2MiB deallocate_frame from constituent i on
RECURSIVE Dealloc2mLoop(_, _, _, _)
Dealloc2mLoop(regs, ffopt, addr, i) ==
    IF i >= Size2MiB \div Size4KiB THEN Outcome(regs, ffopt, Some(addr), FALSE)
    ELSE LET o == deallocate_frame_4k(regs, ffopt,
                      containing_address(addr + i * Size4KiB, Size4KiB))
         IN  IF o.res = None THEN o
             ELSE Dealloc2mLoop(o.regions, o.first_free, addr, i + 1)

\* variant: a failed deallocation restores the frames it had freed
deallocate_frame_2m_rollback(regs, ffopt, addr) ==
    LET o == Dealloc2mLoop(regs, ffopt, addr, 0) IN
    IF o.res = None THEN Outcome(regs, ffopt, None, FALSE) ELSE o

\* <PhysicalMemoryManager as PhysicalFrameAllocator<Size2MiB>>::deallocate_frame
deallocate_frame_2m(regs, ffopt, addr) == Dealloc2mLoop(regs, ffopt, addr, 0)

\* the loop of the Size1GiB deallocate_frame from constituent i on
RECURSIVE Dealloc1gLoop(_, _, _, _)
Dealloc1gLoop(regs, ffopt, addr, i) ==
    IF i >= Size1GiB \div Size2MiB THEN Outcome(regs, ffopt, Some(addr), FALSE)
    ELSE LET o == deallocate_frame_2m(regs, ffopt,
                      containing_address(addr + i * Size2MiB, Size2MiB))
         IN  IF o.res = None THEN o
             ELSE Dealloc1gLoop(o.regions, o.first_free, addr, i + 1)

\* <PhysicalMemoryManager as PhysicalFrameAllocator<Size1GiB>>::deallocate_frame
deallocate_frame_1g(regs, ffopt, addr) == Dealloc1gLoop(regs, ffopt, addr, 0)

\* PhysicalFrameAllocator::<S>::deallocate_frame on the manager
deallocate_frame(regs, ffopt, S, addr) ==
    IF S = Size4KiB THEN deallocate_frame_4k(regs, ffopt, addr)
    ELSE IF S = Size2MiB THEN deallocate_frame_2m(regs, ffopt, addr)
    ELSE deallocate_frame_1g(regs, ffopt, addr)

\* PhysicalFrameAllocator::deallocate_frames (trait default): frame by frame
\* from `frame` to range_end, res is the range freed so far
RECURSIVE DeallocFramesLoop(_, _, _, _, _, _)
DeallocFramesLoop(regs, ffopt, S, frame, range_end, res) ==
    IF frame > range_end THEN Outcome(regs, ffopt, res, FALSE)
    ELSE LET o == deallocate_frame(regs, ffopt, S, frame) IN
         IF o.res = None THEN o
         ELSE DeallocFramesLoop(o.regions, o.first_free, S, frame + S, range_end,
                  Some([start |-> IF IsSome(res) THEN Unwrap(res).start ELSE frame,
                        end |-> frame]))

deallocate_frames(regs, ffopt, S, range) ==
    DeallocFramesLoop(regs, ffopt, S, range.start, range.end, None)


----------------------------------------------------------------------------
(* Stage 1: PhysicalBumpAllocator (kernel/src/mem/phys.rs) *)

USABLE == "USABLE"

RESERVED == "RESERVED"

Entry(entry_type, base, length) ==
    [entry_type |-> entry_type, base |-> base, length |-> length]

\* (region.base..region.length).step_by(4096) from address addr on
RECURSIVE StepBy(_, _)
StepBy(addr, range_end) ==
    IF addr >= range_end THEN <<>>
    ELSE <<containing_address(addr, Size4KiB)>> \o StepBy(addr + Size4KiB, range_end)

\* variant: every entry is enumerated from address 0
entry_range_from_zero(entry) == [start |-> 0, end |-> entry.length]

\* the range one usable entry contributes to usable_frames (line 546)
entry_range(entry) == [start |-> entry.base, end |-> entry.length]

\* PhysicalBumpAllocator::usable_frames, as the sequence the iterator yields
RECURSIVE UsableFramesFrom(_, _)
UsableFramesFrom(ents, i) ==
    IF i > Len(ents) THEN <<>>
    ELSE (IF ents[i].entry_type = USABLE
          THEN StepBy(entry_range(ents[i]).start, entry_range(ents[i]).end)
          ELSE <<>>) \o UsableFramesFrom(ents, i + 1)

usable_frames(ents) == UsableFramesFrom(ents, 1)

\* usable_frames().nth(n)
Nth(seq, n) == IF n < Len(seq) THEN Some(seq[n + 1]) ELSE None

\* usable_frames().take(n)
Take(seq, n) == SubSeq(seq, 1, Min(n, Len(seq)))

\* init_stage2, lines 413-423: one all-Free region per usable entry
RECURSIVE BuildRegionsFrom(_, _)
BuildRegionsFrom(ents, i) ==
    IF i > Len(ents) THEN <<>>
    ELSE (IF ents[i].entry_type = USABLE
          THEN <<MemoryRegionNew(ents[i].base, ents[i].length \div Size4KiB, Free)>>
          ELSE <<>>) \o BuildRegionsFrom(ents, i + 1)

\* init_stage2, lines 429-434: mark addr Allocated in the first region holding it
mark_allocated(regs, addr) ==
    LET loc == find_frame_location(regs, addr) IN
    IF loc = None THEN regs
    ELSE [regs EXCEPT ![Unwrap(loc).region_idx + 1] =
             FillFrames(regs[Unwrap(loc).region_idx + 1],
                        Unwrap(loc).frame_idx, Unwrap(loc).frame_idx, Allocated)]

\* init_stage2, lines 426-435: replay of the frames stage 1 issued
RECURSIVE Replay(_, _, _)
Replay(regs, issued, i) ==
    IF i > Len(issued) THEN regs
    ELSE Replay(mark_allocated(regs, issued[i]), issued, i + 1)

\* variant: the replay stops one frame early
replayed_frames_one_short(ents, stage_one_next_free) ==
    Take(usable_frames(ents), stage_one_next_free - 1)

\* the frames init_stage2 replays (line 426)
replayed_frames(ents, stage_one_next_free) ==
    Take(usable_frames(ents), stage_one_next_free)

\* init_stage2: the manager that replaces the bump allocator
init_stage2_manager(ents, stage_one_next_free) ==
    PhysicalMemoryManagerNew(
        Replay(BuildRegionsFrom(ents, 1), replayed_frames(ents, stage_one_next_free), 1))

----------------------------------------------------------------------------
(* KernelSlab<V, N> and Segment<V, N> (kernel_slab) *)

\* threads that share one slab
NumThreads == 2

\* largest index passed to get / try_get
MaxIndex == 4

\* N, the number of slots of a segment
SegmentSize == 2

Threads == 1..NumThreads

\* the head segment lives inside the KernelSlab; heap segments are numbered
\* in allocation order
HeadSeg == 0

\* null_mut()
Null == -1

\* a call can link at most MaxIndex / N segments, and at each of these chain
\* positions every thread allocates at most once
MaxAllocs == NumThreads * (MaxIndex \div SegmentSize)

SegIds == 0..MaxAllocs

\* Index { segment, offset } (lib.rs lines 31-34, 50-53)
IndexOf(index) == [segment |-> index \div SegmentSize, offset |-> index % SegmentSize]

\* &segment[offset]: the identity of a slot
Slot(seg, offset) == [seg |-> seg, offset |-> offset]

IdleThread ==
    [pc |-> "idle", op |-> "none", index |-> 0, cur |-> HeadSeg, remaining |-> 0,
     newly |-> Null]

\* a returned call: get and try_get return a slot, Iter::next the next item
SlabCall(op, index, result) ==
    [op |-> op, index |-> index, result |-> result]

\* V::default(), and the value a caller stores into a slot
Default == "default"

Written == "hello"

\* variant: the elements of a new segment are left as the allocation held them
segment_new_uninit(n) == [i \in 0..(n - 1) |-> "uninit"]

\* Segment::new: every element is V::default(), the next pointer is null
\* (segment.rs lines 17-22)
segment_new(n) == [i \in 0..(n - 1) |-> Default]

\* Segment::try_next on the segment at chain position k, positions counted
\* from 0 at the head: the next segment when one is linked (segment.rs lines
\* 60-71)
segment_try_next(chain, k) == IF k + 1 < Len(chain) THEN Some(k + 1) ELSE None

\* Segment::next with no other thread around: the linked segment or, when the
\* pointer is null, a new segment whose compare_exchange cannot fail
\* (segment.rs lines 24-56)
segment_next(chain, k, n) ==
    IF IsSome(segment_try_next(chain, k))
    THEN [chain |-> chain, seg |-> Unwrap(segment_try_next(chain, k))]
    ELSE [chain |-> Append(chain, segment_new(n)), seg |-> Len(chain)]

\* the loop of KernelSlab::get: `remaining` times current = current.next()
\* (lib.rs lines 56-60)
RECURSIVE GetWalk(_, _, _, _)
GetWalk(chain, current, remaining, n) ==
    IF remaining = 0 THEN [chain |-> chain, seg |-> current]
    ELSE LET step == segment_next(chain, current, n)
         IN  GetWalk(step.chain, step.seg, remaining - 1, n)

\* variant: the loop of get runs once more than the segment number
get_one_beyond(chain, index, n) ==
    LET walk == GetWalk(chain, 0, index \div n + 1, n)
    IN  [chain |-> walk.chain, slot |-> Slot(walk.seg - 1, index % n)]

\* KernelSlab::get(index): the chain afterwards and the slot returned
\* (lib.rs lines 46-63)
get(chain, index, n) ==
    LET walk == GetWalk(chain, 0, index \div n, n)
    IN  [chain |-> walk.chain, slot |-> Slot(walk.seg, index % n)]

\* the loop of KernelSlab::try_get: `remaining` times current.try_next()?
\* (lib.rs lines 37-40)
RECURSIVE TryGetWalk(_, _, _)
TryGetWalk(chain, current, remaining) ==
    IF remaining = 0 THEN Some(current)
    ELSE IF IsSome(segment_try_next(chain, current))
    THEN TryGetWalk(chain, Unwrap(segment_try_next(chain, current)), remaining - 1)
    ELSE None

\* KernelSlab::try_get(index) (lib.rs lines 30-44)
try_get(chain, index, n) ==
    LET walk == TryGetWalk(chain, 0, index \div n)
    IN  IF IsSome(walk) THEN Some(Slot(Unwrap(walk), index % n)) ELSE None

\* Iter::new(&self.head) (iter.rs lines 9-11)
iter_new == [segment |-> 0, index |-> 0]

\* variant: the iterator ends at the end of the segment it is in
iter_next_one_segment(chain, it, n) ==
    IF it.index >= n
    THEN [it |-> it, item |-> None]
    ELSE [it |-> [it EXCEPT !.index = @ + 1], item |-> Some(Slot(it.segment, it.index))]

\* Iter::next: the iterator afterwards and the item; when try_next is None
\* the `?` returns before anything is changed (iter.rs lines 17-27)
iter_next(chain, it, n) ==
    IF it.index >= n
    THEN IF IsSome(segment_try_next(chain, it.segment))
         THEN [it |-> [segment |-> Unwrap(segment_try_next(chain, it.segment)), index |-> 1],
               item |-> Some(Slot(Unwrap(segment_try_next(chain, it.segment)), 0))]
         ELSE [it |-> it, item |-> None]
    ELSE [it |-> [it EXCEPT !.index = @ + 1], item |-> Some(Slot(it.segment, it.index))]

\* a program that makes arbitrary calls
FreeCalls == [at |-> "free", i |-> 0]

\* KernelSlab::<V, n>::new() in a single-threaded program at position pc
\* (lib.rs lines 21-28)
SeqNew(n, pc) ==
    /\ sq_n = n
    /\ sq_chain = <<segment_new(n)>>
    /\ sq_written = {}
    /\ sq_iter = None
    /\ sq_items = <<>>
    /\ sq_ret = SlabCall("new", 0, None)
    /\ sq_pc = pc

\* no thread has entered Segment::next on the head segment yet: the pointer is
\* null and no new segment exists
PublishStart ==
    /\ head_next = Null
    /\ seg_mem = [t \in Threads |-> [i \in 0..(SegmentSize - 1) |-> "uninit"]]
    /\ store_buf = [t \in Threads |-> {}]
    /\ pub = [t \in Threads |-> [pc |-> "try_next", seg |-> Null, seen |-> None]]

\* KernelSlab::new: a head segment with no next segment
InitSlab ==
    /\ slab_state = "alive"
    /\ seg_next = [s \in SegIds |-> Null]
    /\ allocs = 0
    /\ frees = [s \in SegIds |-> 0]
    /\ links = {}
    /\ th = [t \in Threads |-> IdleThread]
    /\ slab_ret = SlabCall("new", 0, None)
    /\ drop_stack = <<>>
    /\ PublishStart
    /\ SeqNew(SegmentSize, FreeCalls)

\* the slab while the other subsystems run
SlabIdle == InitSlab

\* cores that call the PhysicalMemory facade
NumCores == 2

Cores == 1..NumCores

\* the value of lock when no core holds the mutex
Unlocked == 0

IdleCore == [pc |-> "idle", call |-> None, out |-> None]

\* no allocation is being handed back
NoTrip == [at |-> "free", regions |-> <<>>, first_free |-> None, size |-> Size4KiB,
           range |-> None]

\* no facade call is in progress
FacadeIdle ==
    /\ lock = Unlocked
    /\ cores = [c \in Cores |-> IdleCore]

\* the physical memory model while the other subsystems run
PhysIdle ==
    /\ stage = "Stage1"
    /\ entries = <<>>
    /\ next_frame = 0
    /\ regions = <<>>
    /\ first_free = None
    /\ ret = [op |-> "none", size |-> 0, n |-> 0, arg |-> None, res |-> None, panic |-> FALSE]
    /\ owned = <<>>
    /\ stage1_held = {}
    /\ trip = NoTrip
    /\ FacadeIdle

----------------------------------------------------------------------------
(* ElfFile and ElfLoader (kernel_elfloader) *)

\* program headers of one file
MaxHeaders == 2

\* ElfType (file.rs lines 177-183)
ElfTypeExec == "Exec"

ElfTypeDyn == "Dyn"

\* ProgramHeaderType (file.rs lines 222-231)
PT_LOAD == 1

PT_NOTE == 4

PT_TLS == 7

\* ProgramHeaderFlags (file.rs lines 259-263)
EXECUTABLE == 1

WRITABLE == 2

READABLE == 4

RECURSIVE BitAnd(_, _)
BitAnd(a, b) ==
    IF a = 0 \/ b = 0 THEN 0
    ELSE (a % 2) * (b % 2) + 2 * BitAnd(a \div 2, b \div 2)

\* ProgramHeaderFlags::contains: self.0 & other.0 > 0
contains(flags, other) == BitAnd(flags, other) > 0

\* addresses are VirtAddrBits wide and the low CanonicalBits of them are
\* translated (64 and 48 on x86_64)
VirtAddrBits == 16

CanonicalBits == 12

RECURSIVE Pow2(_)
Pow2(n) == IF n = 0 THEN 1 ELSE 2 * Pow2(n - 1)

\* VirtAddr::try_new succeeds on a canonical address: the bits from
\* CanonicalBits - 1 upwards are all equal
canonical(addr) ==
    \/ addr < Pow2(CanonicalBits - 1)
    \/ addr >= Pow2(VirtAddrBits) - Pow2(CanonicalBits - 1)

\* isize::MAX for the model's sizes
IsizeMax == 127

is_power_of_two(n) == \E k \in 0..VirtAddrBits : n = Pow2(k)

\* Layout::from_size_align(size, align) is Ok
layout_valid(size, align) ==
    /\ is_power_of_two(align)
    /\ size <= IsizeMax - (align - 1)

\* length of ElfFile.source
SourceLen == 4

\* program_data: &source[offset .. offset + filesz] is in range
program_data_in_range(hdr) == hdr.offset + hdr.filesz <= SourceLen

\* the bytes of ElfFile.source that segments are loaded from: all different
\* and none of them zero
SourceContent == [i \in 1..SourceLen |-> 16 + i]

\* program_data (file.rs lines 130-132)
program_data(hdr) == SubSeq(SourceContent, hdr.offset + 1, hdr.offset + hdr.filesz)

\* what the bytes of a fresh allocation may hold: zeroes or what an earlier
\* user of the memory left there
PriorBytes == {0, 170}

ProgramHeader(typ, flags, offset, vaddr, filesz, memsz, align) ==
    [typ |-> typ, flags |-> flags, offset |-> offset, vaddr |-> vaddr,
     filesz |-> filesz, memsz |-> memsz, align |-> align]

\* a well-formed segment: one byte of file content, two bytes in memory
GoodHeader(typ, flags) == ProgramHeader(typ, flags, 0, 1024, 1, 2, 8)

\* the program headers the files are built from: every flag combination on
\* a well-formed LOAD segment, malformed LOAD and TLS segments, and a LOAD
\* and a TLS segment of four bytes whose two bytes of file content start at
\* offset 1
HeaderChoices ==
    { GoodHeader(PT_LOAD, flags) : flags \in 0..7 }
    \cup UNION { { ProgramHeader(PT_LOAD, flags, 0, 2048, 1, 2, 8),
                  ProgramHeader(PT_LOAD, flags, 0, 1024, 1, 2, 3),
                  ProgramHeader(PT_LOAD, flags, 0, 1024, 1, 2, 0),
                  ProgramHeader(PT_LOAD, flags, 0, 1024, 1, IsizeMax, 8),
                  ProgramHeader(PT_LOAD, flags, 0, 1024, 2, 1, 8),
                  ProgramHeader(PT_LOAD, flags, SourceLen, 1024, 1, 2, 8) }
                : flags \in {READABLE + EXECUTABLE, READABLE + WRITABLE + EXECUTABLE} }
    \cup { ProgramHeader(PT_LOAD, READABLE, 1, 1024, 2, 4, 8),
           ProgramHeader(PT_TLS, READABLE, 1, 0, 2, 4, 8),
           GoodHeader(PT_TLS, READABLE),
           ProgramHeader(PT_TLS, READABLE, 0, 0, 1, 2, 3),
           ProgramHeader(PT_TLS, READABLE, 0, 0, 2, 1, 8),
           GoodHeader(PT_NOTE, READABLE) }

RECURSIVE SeqsUpTo(_, _)
SeqsUpTo(S, n) ==
    IF n = 0 THEN { <<>> }
    ELSE LET shorter == SeqsUpTo(S, n - 1)
         IN  shorter \cup { Append(q, x) : q \in shorter, x \in S }

ElfFiles ==
    { [typ |-> typ, headers |-> hs] :
        typ \in {ElfTypeExec, ElfTypeDyn}, hs \in SeqsUpTo(HeaderChoices, MaxHeaders) }

RECURSIVE IndicesByType(_, _, _)
IndicesByType(headers, typ, i) ==
    IF i > Len(headers) THEN <<>>
    ELSE (IF headers[i].typ = typ THEN <<i>> ELSE <<>>) \o IndicesByType(headers, typ, i + 1)

\* program_headers_by_type: the positions, in file order, of the headers of
\* one type (file.rs lines 77-82)
program_headers_by_type(file, typ) == IndicesByType(file.headers, typ, 1)

EmptyImage ==
    [executable_allocations |-> <<>>, readonly_allocations |-> <<>>,
     writable_allocations |-> <<>>, tls_allocation |-> None]

NoResult == [kind |-> "none", what |-> "none"]

LoadOk == [kind |-> "Ok", what |-> "image"]

LoadErr(e) == [kind |-> "Err", what |-> e]

LoadPanic(message) == [kind |-> "Panic", what |-> message]

ExecOnlyMessage == "only ET_EXEC supported for now"

WritableExecutableMessage == "segments that are executable and writable are not supported"

RangeMessage == "range end index out of range for slice"

RangeStartMessage == "range start index out of range for slice"

UnwrapMessage == "called Result::unwrap() on an Err value"

\* the panic of &slice[start .. end] on a slice of len bytes when end > len:
\* it names the start when the start already lies past the slice
SliceMessage(start, len) == IF start > len THEN RangeStartMessage ELSE RangeMessage

\* a call on ElfFile: the method, its arguments and the result
FileCall(op, arg, result) == [op |-> op, arg |-> arg, result |-> result]

NoFileCall == FileCall("none", None, NoResult)

\* the loader holds the file and has not been called
ElfReady(file) ==
    /\ elf_file = file
    /\ elf_pc = "start"
    /\ elf_idx = 1
    /\ elf_alloc = None
    /\ image = EmptyImage
    /\ mem_log = <<>>
    /\ elf_result = NoResult
    /\ file_ret = NoFileCall

\* the loader while the other subsystems run
ElfIdle == ElfReady([typ |-> ElfTypeExec, headers |-> <<>>])

----------------------------------------------------------------------------
(* The file descriptors of a process (kernel/src/syscall/access.rs).  The  *)
(* table is Process.file_descriptors, an RwLock<BTreeMap<FdNum, ..>>; a    *)
(* statement that takes the read or the write guard is one step, and the   *)
(* guard is released when the statement ends.                              *)

\* calls to open in one behaviour
MaxOpens == 3

\* the fd numbers a caller may pass to close
FdNums == 0..(MaxOpens + 2)

\* BTreeMap::keys: the fd numbers of the table
Keys(table) == { e[1] : e \in table }

\* .keys().fold(0, |acc, &fd| if acc == fd { acc + 1 } else { acc }), the keys
\* taken in ascending order as BTreeMap::keys yields them (lines 66-74)
RECURSIVE FoldKeys(_, _)
FoldKeys(keys, acc) ==
    IF keys = {} THEN acc
    ELSE LET fd == CHOOSE x \in keys : \A y \in keys : x <= y
         IN  FoldKeys(keys \ {fd}, IF acc = fd THEN acc + 1 ELSE acc)

\* the number open computes under the read guard (lines 63-76)
next_fd(table) == FoldKeys(Keys(table), 0)

\* BTreeMap::insert(num, fd): an entry with the same key is replaced
insert(table, num, ofd) == { e \in table : e[1] # num } \cup { <<num, ofd>> }

\* BTreeMap::remove(&fd)
remove(table, num) == { e \in table : e[1] # num }

IdleOpen == [pc |-> "idle", num |-> 0, ofd |-> 0, seen |-> {}]

FdCall(op, core, num, ofd) == [op |-> op, core |-> core, num |-> num, ofd |-> ofd]

\* the tables of a fresh process: empty, or stdin, stdout and stderr as the
\* process start inserts them (mcore/mtask/process/mod.rs lines 294-320)
InitialTables == { {}, { <<0, 0>>, <<1, 0>>, <<2, 0>> } }

\* no call on the descriptor table has been made
FdReady(table) ==
    /\ fd_table = table
    /\ fd_cores = [c \in Cores |-> IdleOpen]
    /\ fd_opened = 0
    /\ fd_live = table
    /\ fd_ret = FdCall("none", 0, 0, 0)

\* the descriptor table while the other subsystems run
FdIdle == FdReady({})

\* KernelAccess::open, up to the end of the statement that holds the read
\* guard: the new OpenFileDescription and the number (lines 62-76)
OpenRead(c) ==
    /\ fd_cores[c].pc = "idle"
    /\ fd_opened < MaxOpens
    /\ fd_opened' = fd_opened + 1
    /\ fd_cores' = [fd_cores EXCEPT ![c] = [pc |-> "insert", num |-> next_fd(fd_table),
                                            ofd |-> fd_opened + 1, seen |-> fd_table]]
    /\ UNCHANGED <<physVars, slabVars, elfVars, fd_table, fd_live, fd_ret>>

\* KernelAccess::open: insert under the write guard, and Ok(num) (lines 78-80)
OpenInsert(c) ==
    /\ fd_cores[c].pc = "insert"
    /\ fd_table' = insert(fd_table, fd_cores[c].num, fd_cores[c].ofd)
    /\ fd_live' = fd_live \cup { <<fd_cores[c].num, fd_cores[c].ofd>> }
    /\ fd_ret' = FdCall("open", c, fd_cores[c].num, fd_cores[c].ofd)
    /\ fd_cores' = [fd_cores EXCEPT ![c] = IdleOpen]
    /\ UNCHANGED <<physVars, slabVars, elfVars, fd_opened>>

\* KernelAccess::close(fd): remove under the write guard, always Ok (lines 103-106)
Close(c, fd) ==
    /\ fd_cores[c].pc = "idle"
    /\ fd_table' = remove(fd_table, fd)
    /\ fd_live' = { d \in fd_live : d[1] # fd }
    /\ fd_ret' = FdCall("close", c, fd, 0)
    /\ UNCHANGED <<physVars, slabVars, elfVars, fd_cores, fd_opened>>

InitFd == PhysIdle /\ SlabIdle /\ ElfIdle /\ \E table \in InitialTables : FdReady(table)

NextFd ==
    \/ \E c \in Cores : OpenRead(c)
    \/ \E c \in Cores : OpenInsert(c)
    \/ \E c \in Cores, fd \in FdNums : Close(c, fd)

SpecFd == InitFd /\ [][NextFd]_vars

----------------------------------------------------------------------------
(* Initial states of the physical memory model *)

\* managers built directly by PhysicalMemoryManager::new, as the unit tests do
DirectLayouts ==
    { \* two regions back to back in address space
      <<MemoryRegionNew(0, RegionFrames, Free),
        MemoryRegionNew(RegionFrames * Size4KiB, 2, Free)>>,
      \* a region whose base is 4KiB-aligned but not 2MiB-aligned, a gap, and
      \* a second region
      <<MemoryRegionNew(Size4KiB, RegionFrames - 1, Free),
        MemoryRegionNew((RegionFrames + 2) * Size4KiB, 2, Free)>>,
      \* frames that were never usable or are already taken
      <<MemoryRegionWithFrames(0, <<Free, Unusable, Allocated, Free>>)>> }

\* firmware memory maps handed to init_stage1: usable entries are sorted,
\* disjoint and 4KiB-aligned in base and length
FirmwareMaps ==
    { <<Entry(USABLE, 0, 3 * Size4KiB),
        Entry(RESERVED, 3 * Size4KiB, Size4KiB),
        Entry(USABLE, 4 * Size4KiB, 2 * Size4KiB)>>,
      <<Entry(USABLE, Size4KiB, 3 * Size4KiB)>>,
      <<Entry(USABLE, 0, Size4KiB),
        Entry(RESERVED, Size4KiB, Size4KiB),
        Entry(USABLE, 2 * Size4KiB, 3 * Size4KiB)>> }

\* addresses of the 4KiB units the model tracks
UnitAddrs == {k * Size4KiB : k \in 0..(MaxAddrFrames + PageTableFanout * PageTableFanout)}

\* addresses a caller may pass as a frame of size S
FrameAddrs(S) == {a \in UnitAddrs : a % S = 0 /\ a <= MaxAddrFrames * Size4KiB}

\* the 4KiB units an inclusive range of S frames covers
RangeUnits(range, S) ==
    {a \in UnitAddrs : range.start <= a /\ a < range.end + S}

\* the state of the unit at an address, "Absent" outside every region
UnitState(regs, addr) ==
    LET loc == find_frame_location(regs, addr) IN
    IF loc = None THEN "Absent"
    ELSE FrameAt(regs[Unwrap(loc).region_idx + 1], Unwrap(loc).frame_idx)

Call(op, size, n, arg, res, panic) ==
    [op |-> op, size |-> size, n |-> n, arg |-> arg, res |-> res, panic |-> panic]

InitPhysDirect ==
    /\ stage = "Stage2"
    /\ entries = <<>>
    /\ next_frame = 0
    /\ \E layout \in DirectLayouts :
          /\ regions = PhysicalMemoryManagerNew(layout).regions
          /\ first_free = PhysicalMemoryManagerNew(layout).first_free
    /\ ret = Call("new", Size4KiB, 0, None, None, FALSE)
    /\ owned = [a \in UnitAddrs |-> 0]
    /\ stage1_held = {}
    /\ trip = NoTrip

\* init_stage1
InitPhysBoot ==
    /\ stage = "Stage1"
    /\ entries \in FirmwareMaps
    /\ next_frame = 0
    /\ regions = <<>>
    /\ first_free = None
    /\ ret = Call("init_stage1", Size4KiB, 0, None, None, FALSE)
    /\ owned = [a \in UnitAddrs |-> 0]
    /\ stage1_held = {}
    /\ trip = NoTrip

InitPhys == (InitPhysDirect \/ InitPhysBoot) /\ FacadeIdle /\ SlabIdle /\ ElfIdle /\ FdIdle

----------------------------------------------------------------------------
(* Operations of the physical memory model *)

\* history: units freed by a call lose their holders
OwnedAfterFree(regs2) ==
    IF regs2 = regions THEN owned
    ELSE [a \in UnitAddrs |->
            IF owned[a] = 0 THEN 0
            ELSE IF UnitState(regions, a) = Allocated /\ UnitState(regs2, a) = Free
            THEN 0 ELSE owned[a]]

HeldAfterFree(regs2) ==
    IF regs2 = regions THEN stage1_held
    ELSE {a \in stage1_held :
            ~(UnitState(regions, a) = Allocated /\ UnitState(regs2, a) = Free)}

\* MultiStageAllocator::allocate_frame::<Size4KiB> in stage 1
Stage1AllocateFrame ==
    /\ stage = "Stage1"
    /\ LET frame == Nth(usable_frames(entries), next_frame) IN
       /\ next_frame' = IF IsSome(frame) THEN next_frame + 1 ELSE next_frame
       /\ ret' = Call("allocate_frame", Size4KiB, 1, None, frame, FALSE)
       /\ stage1_held' = IF IsSome(frame) THEN stage1_held \cup {Unwrap(frame)} ELSE stage1_held
    /\ UNCHANGED <<slabVars, elfVars, fdVars, facadeVars, trip, stage, entries, regions, first_free, owned>>

\* MultiStageAllocator::allocate_frame::<S> in stage 1 for S other than 4KiB:
\* unimplemented!("can't allocate non-4KiB frames in stage1")
Stage1AllocateLargeFrame(S) ==
    /\ stage = "Stage1"
    /\ S # Size4KiB
    /\ ret' = Call("allocate_frame", S, 1, None, None, TRUE)
    /\ UNCHANGED <<slabVars, elfVars, fdVars, facadeVars, trip, stage, entries, next_frame, regions, first_free,
                   owned, stage1_held>>

\* variant: stage 1 serves allocate_frames(1) from the bump allocator
Stage1AllocateFramesBump(S, n) ==
    /\ stage = "Stage1"
    /\ LET frame == IF n = 1 /\ S = Size4KiB
                    THEN Nth(usable_frames(entries), next_frame) ELSE None IN
       /\ next_frame' = IF IsSome(frame) THEN next_frame + 1 ELSE next_frame
       /\ ret' = Call("allocate_frames", S, n, None,
                      IF IsSome(frame) THEN Some([start |-> Unwrap(frame), end |-> Unwrap(frame)])
                      ELSE None, FALSE)
       /\ stage1_held' = IF IsSome(frame) THEN stage1_held \cup {Unwrap(frame)} ELSE stage1_held
    /\ UNCHANGED <<slabVars, elfVars, fdVars, facadeVars, trip, stage, entries, regions, first_free, owned>>

\* MultiStageAllocator::allocate_frames::<S>(n) in stage 1:
\* unimplemented!("can't allocate contiguous frames in stage1")
Stage1AllocateFrames(S, n) ==
    /\ stage = "Stage1"
    /\ ret' = Call("allocate_frames", S, n, None, None, TRUE)
    /\ UNCHANGED <<slabVars, elfVars, fdVars, facadeVars, trip, stage, entries, next_frame, regions, first_free,
                   owned, stage1_held>>

\* MultiStageAllocator::deallocate_frame::<S>(frame) in stage 1:
\* unimplemented!("can't deallocate frames in stage1")
Stage1DeallocateFrame(S, addr) ==
    /\ stage = "Stage1"
    /\ ret' = Call("deallocate_frame", S, 1, Some(addr), None, TRUE)
    /\ UNCHANGED <<slabVars, elfVars, fdVars, facadeVars, trip, stage, entries, next_frame, regions, first_free,
                   owned, stage1_held>>

\* MultiStageAllocator::deallocate_frames::<S>(range) in stage 1:
\* unimplemented!("can't deallocate frames in stage1")
Stage1DeallocateFrames(S, range) ==
    /\ stage = "Stage1"
    /\ ret' = Call("deallocate_frames", S, 1 + (range.end - range.start) \div S,
                   Some(range), None, TRUE)
    /\ UNCHANGED <<slabVars, elfVars, fdVars, facadeVars, trip, stage, entries, next_frame, regions, first_free,
                   owned, stage1_held>>

\* init_stage2
InitStage2 ==
    /\ stage = "Stage1"
    /\ stage' = "Stage2"
    /\ \E manager \in {init_stage2_manager(entries, next_frame)} :
          /\ regions' = manager.regions
          /\ first_free' = manager.first_free
    /\ ret' = Call("init_stage2", Size4KiB, 0, None, None, FALSE)
    /\ UNCHANGED <<slabVars, elfVars, fdVars, facadeVars, trip, entries, next_frame, owned, stage1_held>>

\* allocate_frames::<S>(n) has run with outcome o
AllocateFramesReturns(S, n, o) ==
    /\ regions' = o.regions
    /\ first_free' = o.first_free
    /\ ret' = Call("allocate_frames", S, n, None, o.res, o.panic)
    /\ IF IsSome(o.res)
       THEN \E units \in {RangeUnits(Unwrap(o.res), S)} :
               owned' = [a \in UnitAddrs |->
                            IF a \in units THEN owned[a] + 1 ELSE owned[a]]
       ELSE owned' = owned

\* allocate_frames::<S>(n) in stage 2
AllocateFrames(S, n) ==
    /\ stage = "Stage2"
    /\ \E o \in allocate_frames_impl(regions, first_free, S, n) : AllocateFramesReturns(S, n, o)
    /\ UNCHANGED <<slabVars, elfVars, fdVars, facadeVars, trip, stage, entries, next_frame, stage1_held>>

\* allocate_frame::<S>() in stage 2: allocate_frames(1).map(|range| range.start)
AllocateFrame(S) ==
    /\ stage = "Stage2"
    /\ \E o \in allocate_frames_impl(regions, first_free, S, 1) :
          /\ regions' = o.regions
          /\ first_free' = o.first_free
          /\ ret' = Call("allocate_frame", S, 1, None,
                         IF IsSome(o.res) THEN Some(Unwrap(o.res).start) ELSE None, o.panic)
          /\ IF IsSome(o.res)
             THEN \E units \in {RangeUnits(Unwrap(o.res), S)} :
                     owned' = [a \in UnitAddrs |->
                                  IF a \in units THEN owned[a] + 1 ELSE owned[a]]
             ELSE owned' = owned
    /\ UNCHANGED <<slabVars, elfVars, fdVars, facadeVars, trip, stage, entries, next_frame, stage1_held>>

\* deallocate_frame::<S>(frame) in stage 2
DeallocateFrame(S, addr) ==
    /\ stage = "Stage2"
    /\ \E o \in {deallocate_frame(regions, first_free, S, addr)} :
          /\ regions' = o.regions
          /\ first_free' = o.first_free
          /\ ret' = Call("deallocate_frame", S, 1, Some(addr), o.res, o.panic)
          /\ owned' = OwnedAfterFree(o.regions)
          /\ stage1_held' = HeldAfterFree(o.regions)
    /\ UNCHANGED <<slabVars, elfVars, fdVars, facadeVars, trip, stage, entries, next_frame>>

\* deallocate_frames::<S>(range) has run with outcome o
DeallocateFramesReturns(S, range, o) ==
    /\ regions' = o.regions
    /\ first_free' = o.first_free
    /\ ret' = Call("deallocate_frames", S, 1 + (range.end - range.start) \div S,
                   Some(range), o.res, o.panic)
    /\ owned' = OwnedAfterFree(o.regions)
    /\ stage1_held' = HeldAfterFree(o.regions)

\* deallocate_frames::<S>(range) in stage 2
DeallocateFrames(S, range) ==
    /\ stage = "Stage2"
    /\ \E o \in {deallocate_frames(regions, first_free, S, range)} :
          DeallocateFramesReturns(S, range, o)
    /\ UNCHANGED <<slabVars, elfVars, fdVars, facadeVars, trip, stage, entries, next_frame>>

\* ranges of S frames a caller may pass: 1..MaxN frames
FrameRanges(S) ==
    {[start |-> a, end |-> a + (k - 1) * S] : a \in FrameAddrs(S), k \in 1..MaxN}

NextPhys ==
    \/ Stage1AllocateFrame
    \/ \E S \in PageSizes : Stage1AllocateLargeFrame(S)
    \/ \E S \in PageSizes, n \in 0..MaxN : Stage1AllocateFrames(S, n)
    \/ \E S \in PageSizes : \E addr \in FrameAddrs(S) : Stage1DeallocateFrame(S, addr)
    \/ \E S \in PageSizes : \E range \in FrameRanges(S) : Stage1DeallocateFrames(S, range)
    \/ InitStage2
    \/ \E S \in PageSizes, n \in 0..MaxN : AllocateFrames(S, n)
    \/ \E S \in PageSizes : AllocateFrame(S)
    \/ \E S \in PageSizes : \E addr \in FrameAddrs(S) : DeallocateFrame(S, addr)
    \/ \E S \in PageSizes : \E range \in FrameRanges(S) : DeallocateFrames(S, range)

SpecPhys == InitPhys /\ [][NextPhys]_vars

----------------------------------------------------------------------------
(* An allocation that is handed back by the next call.  The manager is     *)
(* brought into some state by the calls above; then allocate_frames        *)
(* returns a range and deallocate_frames of that range follows directly.   *)

\* allocate_frames::<S>(n) returns a range; the manager it found is kept
RoundTripAllocate(S, n) ==
    /\ trip.at = "free"
    /\ stage = "Stage2"
    /\ \E o \in allocate_frames_impl(regions, first_free, S, n) :
          /\ IsSome(o.res)
          /\ AllocateFramesReturns(S, n, o)
          /\ trip' = [at |-> "allocated", regions |-> regions, first_free |-> first_free,
                      size |-> S, range |-> o.res]
    /\ UNCHANGED <<slabVars, elfVars, fdVars, facadeVars, stage, entries, next_frame, stage1_held>>

\* deallocate_frames of the range that was just returned
RoundTripDeallocate ==
    /\ trip.at = "allocated"
    /\ \E o \in {deallocate_frames(regions, first_free, trip.size, Unwrap(trip.range))} :
          DeallocateFramesReturns(trip.size, Unwrap(trip.range), o)
    /\ trip' = [trip EXCEPT !.at = "returned"]
    /\ UNCHANGED <<slabVars, elfVars, fdVars, facadeVars, stage, entries, next_frame>>

NextRoundTrip ==
    \/ trip.at = "free" /\ NextPhys
    \/ \E S \in PageSizes, n \in 0..MaxN : RoundTripAllocate(S, n)
    \/ RoundTripDeallocate

SpecRoundTrip == InitPhys /\ [][NextRoundTrip]_vars

----------------------------------------------------------------------------
(* The PhysicalMemory facade: every method is                              *)
(* `allocator().lock().method(..)`, so a call spins on the PHYS_ALLOC      *)
(* mutex, runs the manager's method while it holds the guard and drops the *)
(* guard when the statement ends.  The method is modelled in the order of  *)
(* its code: the search, the marking of the frames, the first_free update. *)

IsAllocCall(c) == c.op \in {"allocate_frames", "allocate_frame"}

\* the calls a core may make
FacadeCalls ==
    {Call("allocate_frame", S, 1, None, None, FALSE) : S \in PageSizes}
    \cup {Call("allocate_frames", S, n, None, None, FALSE) : S \in PageSizes, n \in 0..MaxN}
    \cup UNION {{Call("deallocate_frame", S, 1, Some(addr), None, FALSE) : addr \in FrameAddrs(S)}
                : S \in PageSizes}
    \cup UNION {{Call("deallocate_frames", S, 1 + (range.end - range.start) \div S,
                      Some(range), None, FALSE) : range \in FrameRanges(S)}
                : S \in PageSizes}

\* MultiStageAllocator::<method> in stage 2: the outcomes of the manager's method
manager_call(regs, ffopt, call) ==
    IF call.op = "allocate_frame" THEN allocate_frames_impl(regs, ffopt, call.size, 1)
    ELSE IF call.op = "allocate_frames" THEN allocate_frames_impl(regs, ffopt, call.size, call.n)
    ELSE IF call.op = "deallocate_frame"
    THEN {deallocate_frame(regs, ffopt, call.size, Unwrap(call.arg))}
    ELSE {deallocate_frames(regs, ffopt, call.size, Unwrap(call.arg))}

\* what the facade method hands back: the allocation methods return the
\* manager's result, the deallocation methods drop it and return ()
facade_result(call, o) ==
    IF call.op = "allocate_frame"
    THEN (IF IsSome(o.res) THEN Some(Unwrap(o.res).start) ELSE None)
    ELSE IF call.op = "allocate_frames" THEN o.res
    ELSE None

\* variant: the mutex is handed to every core that asks
lock_always_available(l) == TRUE

\* spin::Mutex::lock succeeds only while no core holds the mutex
lock_available(l) == l = Unlocked

\* a core enters a facade method and starts to spin on the mutex
FacadeCall(c) ==
    /\ stage = "Stage2"
    /\ cores[c].pc = "idle"
    /\ cores' = [cores EXCEPT ![c].pc = "spinning"]
    /\ UNCHANGED <<slabVars, elfVars, fdVars, trip, stage, entries, next_frame, regions, first_free,
                   ret, owned, stage1_held, lock>>

\* allocator().lock(): the core gets the guard
FacadeLock(c, call) ==
    /\ cores[c].pc = "spinning"
    /\ lock_available(lock)
    /\ lock' = c
    /\ cores' = [cores EXCEPT ![c] = [pc |-> "locked", call |-> Some(call), out |-> None]]
    /\ UNCHANGED <<slabVars, elfVars, fdVars, trip, stage, entries, next_frame, regions, first_free,
                   ret, owned, stage1_held>>

\* the method reads the manager: the search of allocate_frames_impl, the
\* lookups of deallocate_frame
FacadeSearch(c) ==
    /\ cores[c].pc = "locked"
    /\ \E o \in manager_call(regions, first_free, Unwrap(cores[c].call)) :
          cores' = [cores EXCEPT ![c].pc = "found", ![c].out = Some(o)]
    /\ UNCHANGED <<slabVars, elfVars, fdVars, trip, stage, entries, next_frame, regions, first_free,
                   ret, owned, stage1_held, lock>>

\* the method writes the frame states
FacadeMark(c) ==
    /\ cores[c].pc = "found"
    /\ regions' = Unwrap(cores[c].out).regions
    /\ owned' = OwnedAfterFree(Unwrap(cores[c].out).regions)
    /\ cores' = [cores EXCEPT ![c].pc = "marked"]
    /\ UNCHANGED <<slabVars, elfVars, fdVars, trip, stage, entries, next_frame, first_free,
                   ret, stage1_held, lock>>

\* the method writes first_free and returns, and the guard is dropped; a
\* method that panics never returns and the kernel halts with the mutex held
FacadeReturn(c) ==
    /\ cores[c].pc = "marked"
    /\ LET call == Unwrap(cores[c].call)
           o == Unwrap(cores[c].out)
           res == facade_result(call, o)
       IN  /\ first_free' = o.first_free
           /\ ret' = Call(call.op, call.size, call.n, call.arg, res, o.panic)
           /\ IF IsAllocCall(call) /\ IsSome(o.res)
              THEN \E units \in {RangeUnits(Unwrap(o.res), call.size)} :
                      owned' = [a \in UnitAddrs |->
                                   IF a \in units THEN owned[a] + 1 ELSE owned[a]]
              ELSE owned' = owned
           /\ lock' = IF o.panic THEN lock ELSE Unlocked
           /\ cores' = [cores EXCEPT ![c] =
                           IF o.panic THEN [@ EXCEPT !.pc = "panicked"] ELSE IdleCore]
    /\ UNCHANGED <<slabVars, elfVars, fdVars, trip, stage, entries, next_frame, regions, stage1_held>>

\* the memory the cores share: one region that holds frames of every state
FacadeLayouts == {<<MemoryRegionWithFrames(0, <<Free, Unusable, Allocated, Free>>)>>}

InitFacade ==
    /\ stage = "Stage2"
    /\ entries = <<>>
    /\ next_frame = 0
    /\ \E layout \in FacadeLayouts :
          /\ regions = PhysicalMemoryManagerNew(layout).regions
          /\ first_free = PhysicalMemoryManagerNew(layout).first_free
    /\ ret = Call("new", Size4KiB, 0, None, None, FALSE)
    /\ owned = [a \in UnitAddrs |-> 0]
    /\ stage1_held = {}
    /\ trip = NoTrip
    /\ FacadeIdle /\ SlabIdle /\ ElfIdle /\ FdIdle

NextFacade ==
    \/ \E c \in Cores : FacadeCall(c)
    \/ \E c \in Cores : \E call \in FacadeCalls : FacadeLock(c, call)
    \/ \E c \in Cores : FacadeSearch(c)
    \/ \E c \in Cores : FacadeMark(c)
    \/ \E c \in Cores : FacadeReturn(c)

SpecFacade == InitFacade /\ [][NextFacade]_vars


----------------------------------------------------------------------------
(* Properties of the physical memory model *)

\* positions <<region_idx, frame_idx>> of the Free frames, by a scan of everything
FreePositions(regs) ==
    {<<r, f>> \in (0..(Len(regs) - 1)) \X (0..(MaxAddrFrames + RegionFrames)) :
        f < RegionLen(regs[r + 1]) /\ FrameAt(regs[r + 1], f) = Free}

LexLess(p, q) == p[1] < q[1] \/ (p[1] = q[1] /\ p[2] < q[2])

\* the position of an address as a pair, <<-1, -1>> outside every region
PositionOf(regs, addr) ==
    LET loc == find_frame_location(regs, addr) IN
    IF loc = None THEN <<-1, -1>> ELSE <<Unwrap(loc).region_idx, Unwrap(loc).frame_idx>>

\* the range an allocation call returned
ReturnedRange(c) ==
    IF c.op = "allocate_frame"
    THEN [start |-> Unwrap(c.res), end |-> Unwrap(c.res)]
    ELSE Unwrap(c.res)

\* C1: in stage 2, after construction and after every call, the cached
\* first_free is the lexicographically smallest Free position, and it is
\* None exactly when no frame of any region is Free.
C1_FirstFreeIsSmallestFree ==
    stage = "Stage2" =>
        IF FreePositions(regions) = {}
        THEN first_free = None
        ELSE /\ IsSome(first_free)
             /\ LET ff == <<Unwrap(first_free).region_idx, Unwrap(first_free).frame_idx>> IN
                /\ ff \in FreePositions(regions)
                /\ \A q \in FreePositions(regions) : ~LexLess(q, ff)

\* an allocation filled the first region, so the cache moved on to the next one
C1_Witness ==
    /\ stage = "Stage2"
    /\ IsAllocCall(ret) /\ IsSome(ret.res)
    /\ IsSome(first_free) /\ Unwrap(first_free).region_idx = 1
    /\ \A f \in 0..(RegionLen(regions[1]) - 1) : FrameAt(regions[1], f) = Allocated

\* C2: every 4KiB unit covered by a returned range that is still held is
\* Allocated, and no unit is covered by two held ranges.
C2_ReturnedUnitsAllocatedAndDisjoint ==
    \A a \in UnitAddrs :
        /\ owned[a] <= 1
        /\ owned[a] >= 1 => UnitState(regions, a) = Allocated

\* a 2MiB range was returned while a 4KiB frame is held as well
C2_Witness ==
    /\ ret.op = "allocate_frames" /\ ret.size = Size2MiB /\ ret.n = 1 /\ IsSome(ret.res)
    /\ \E a \in UnitAddrs : owned[a] = 1 /\ a \notin RangeUnits(Unwrap(ret.res), Size2MiB)
    /\ \A a \in RangeUnits(Unwrap(ret.res), Size2MiB) : owned[a] = 1

\* C6: every returned range or frame of page size S starts at a multiple of S.
C6_ReturnedStartAligned ==
    (IsAllocCall(ret) /\ IsSome(ret.res)) => ReturnedRange(ret).start % ret.size = 0

\* a 2MiB frame was returned by a manager whose first region has a base that
\* is not a multiple of 2MiB
C6_Witness ==
    /\ stage = "Stage2" /\ Len(regions) > 1
    /\ regions[1].base % Size2MiB # 0
    /\ ret.op = "allocate_frame" /\ ret.size = Size2MiB /\ IsSome(ret.res)

\* C7: all 4KiB units of a range returned by allocate_frames lie inside one
\* region.
C7_ReturnedRangeInsideOneRegion ==
    (stage = "Stage2" /\ IsAllocCall(ret) /\ IsSome(ret.res)) =>
        \E r \in 1..Len(regions) :
            /\ regions[r].base <= ReturnedRange(ret).start
            /\ ReturnedRange(ret).end + ret.size
                  <= regions[r].base + RegionLen(regions[r]) * Size4KiB

\* two regions are back to back, the last frame of the first and the first
\* frame of the second are Free, and allocate_frames(2) returned none
C7_Witness ==
    /\ stage = "Stage2" /\ Len(regions) > 1
    /\ regions[2].base = regions[1].base + RegionLen(regions[1]) * Size4KiB
    /\ FrameAt(regions[1], RegionLen(regions[1]) - 1) = Free
    /\ FrameAt(regions[2], 0) = Free
    /\ ret.op = "allocate_frames" /\ ret.size = Size4KiB /\ ret.n = 2 /\ ret.res = None

\* the 4KiB frame addresses of a firmware entry [base, base + length)
EntryUnits(entry) ==
    {a \in UnitAddrs : entry.base <= a /\ a < entry.base + entry.length}

\* C8: right after init_stage2 every frame issued in stage 1 is Allocated and
\* every other frame of every usable entry is Free; afterwards a frame issued
\* in stage 1 and not deallocated since stays Allocated and is covered by no
\* range a stage-2 allocation returned.
C8_Stage1FramesSurviveSwap ==
    /\ ret.op = "init_stage2" =>
          \A i \in 1..Len(entries) :
              entries[i].entry_type = USABLE =>
                  \A a \in EntryUnits(entries[i]) :
                      UnitState(regions, a) = IF a \in stage1_held THEN Allocated ELSE Free
    /\ stage = "Stage2" =>
          \A a \in stage1_held : UnitState(regions, a) = Allocated /\ owned[a] = 0

\* a stage-2 allocation was served while frames issued in stage 1 are held
C8_Witness ==
    /\ stage = "Stage2"
    /\ Cardinality(stage1_held) >= 2
    /\ IsAllocCall(ret) /\ IsSome(ret.res)

\* C9: deallocate_frame::<Size4KiB>(f) on an Allocated frame sets it Free and
\* returns f; on a Free frame it returns none and changes nothing.
C9_Deallocate4KiB ==
    [][(ret'.op = "deallocate_frame" /\ ret'.size = Size4KiB) =>
          LET f == Unwrap(ret'.arg) IN
          /\ UnitState(regions, f) = Allocated =>
                (ret'.res = Some(f) /\ UnitState(regions', f) = Free)
          /\ UnitState(regions, f) = Free =>
                (ret'.res = None /\ regions' = regions /\ first_free' = first_free)
      ]_vars

\* a double free: the call returned none on a frame that is Free
C9_Witness ==
    /\ ret.op = "deallocate_frame" /\ ret.size = Size4KiB
    /\ ret.res = None
    /\ UnitState(regions, Unwrap(ret.arg)) = Free

\* C10 as stated: the allocate_frame that directly follows a successful
\* deallocate_frame(f) of the same page size returns f.
C10_Original ==
    [][(/\ ret.op = "deallocate_frame" /\ IsSome(ret.res)
        /\ ret'.op = "allocate_frame" /\ ret'.size = ret.size)
          => ret'.res = ret.res
      ]_vars

\* the runs a request for one frame of size S can take: S / 4KiB Free frames
\* of one region, starting at a region-local index that is a multiple of
\* S / 4KiB
FitPositions(regs, S) ==
    {<<r, i>> \in (0..(Len(regs) - 1)) \X (0..(MaxAddrFrames + RegionFrames)) :
        /\ i % small_frames_per_frame(S) = 0
        /\ i + small_frames_per_frame(S) <= RegionLen(regs[r + 1])
        /\ \A k \in i..(i + small_frames_per_frame(S) - 1) : FrameAt(regs[r + 1], k) = Free}

\* p is the lowest of these runs in region order
IsFirstFit(regs, S, p) ==
    p \in FitPositions(regs, S) /\ \A q \in FitPositions(regs, S) : ~LexLess(q, p)

\* the frame of the lowest run, none when there is no run or when the run
\* does not start at a multiple of S
FirstFit(regs, S) ==
    IF FitPositions(regs, S) = {} THEN None
    ELSE LET p == CHOOSE q \in FitPositions(regs, S) : IsFirstFit(regs, S, q)
             addr == regs[p[1] + 1].base + p[2] * Size4KiB
         IN  IF addr % S = 0 THEN Some(addr) ELSE None

\* C10 (amended): after a successful deallocate_frame(f) every unit of f is
\* Free, and the allocate_frame of the same page size S that directly follows
\* is first-fit: of the runs of S / 4KiB Free frames that start at a
\* region-local index that is a multiple of S / 4KiB it takes the lowest in
\* region order and returns its frame, or none when there is no such run or
\* the run does not start at a multiple of S.  It returns f exactly when f
\* is that lowest run.
C10_ReallocateFirstFit ==
    /\ [](ret.op = "deallocate_frame" /\ IsSome(ret.res) =>
            \A a \in RangeUnits([start |-> Unwrap(ret.res), end |-> Unwrap(ret.res)], ret.size) :
                UnitState(regions, a) = Free)
    /\ [][(/\ ret.op = "deallocate_frame" /\ IsSome(ret.res)
           /\ ret'.op = "allocate_frame" /\ ret'.size = ret.size)
             => /\ ret'.res = FirstFit(regions, ret.size)
                /\ ret'.res = ret.res <=>
                      IsFirstFit(regions, ret.size, PositionOf(regions, Unwrap(ret.res)))
         ]_vars

\* a 2MiB frame was deallocated and is the lowest run a 2MiB request can
\* take, although a Free 4KiB frame lies before it
C10_Witness ==
    /\ ret.op = "deallocate_frame" /\ ret.size = Size2MiB /\ IsSome(ret.res)
    /\ IsFirstFit(regions, ret.size, PositionOf(regions, Unwrap(ret.res)))
    /\ FirstFit(regions, ret.size) = ret.res
    /\ \E q \in FreePositions(regions) : LexLess(q, PositionOf(regions, Unwrap(ret.res)))


----------------------------------------------------------------------------
(* Operations of the slab model.  One action is one atomic access to a     *)
(* next_segment pointer, or a thread-local step between two such accesses. *)

SlabCanRun(t, pc) == slab_state = "alive" /\ th[t].pc = pc

\* variant: the new segment is stored whatever the pointer holds
cas_always(current) == TRUE

\* segment.rs lines 33-38: compare_exchange(null_mut(), new) succeeds only
\* on a null pointer
cas_succeeds(current) == current = Null

\* KernelSlab::get(index), entry (lib.rs lines 50-56)
GetStart(t, index) ==
    /\ SlabCanRun(t, "idle")
    /\ th' = [th EXCEPT ![t] = [IdleThread EXCEPT !.pc = "get", !.op = "get", !.index = index,
                                     !.remaining = IndexOf(index).segment]]
    /\ UNCHANGED <<physVars, elfVars, fdVars, pubVars, seqVars, slab_state, seg_next, allocs, frees, links, drop_stack, slab_ret>>

\* KernelSlab::get, after the loop: &segment[index.offset] (lib.rs line 62)
GetReturn(t) ==
    /\ SlabCanRun(t, "get")
    /\ th[t].remaining = 0
    /\ th' = [th EXCEPT ![t] = IdleThread]
    /\ slab_ret' = SlabCall("get", th[t].index,
                            Some(Slot(th[t].cur, IndexOf(th[t].index).offset)))
    /\ UNCHANGED <<physVars, elfVars, fdVars, pubVars, seqVars, slab_state, seg_next, allocs, frees, links, drop_stack>>

\* Segment::next: the try_next() load at its start (segment.rs lines 25, 61)
NextLoad(t) ==
    /\ SlabCanRun(t, "get")
    /\ th[t].remaining > 0
    /\ LET next == seg_next[th[t].cur] IN
       th' = IF next # Null
             THEN [th EXCEPT ![t].cur = next, ![t].remaining = @ - 1]
             ELSE [th EXCEPT ![t].pc = "alloc"]
    /\ UNCHANGED <<physVars, elfVars, fdVars, pubVars, seqVars, slab_state, seg_next, allocs, frees, links, drop_stack, slab_ret>>

\* Segment::next: Box::new(Self::new()) and Box::into_raw (segment.rs lines 31-32)
NextAlloc(t) ==
    /\ SlabCanRun(t, "alloc")
    /\ allocs < MaxAllocs
    /\ allocs' = allocs + 1
    /\ th' = [th EXCEPT ![t].pc = "cas", ![t].newly = allocs + 1]
    /\ UNCHANGED <<physVars, elfVars, fdVars, pubVars, seqVars, slab_state, seg_next, frees, links, drop_stack, slab_ret>>

\* variant: the compare_exchange may fail although the pointer is null, as
\* compare_exchange_weak does
NextCasWeak(t) ==
    /\ SlabCanRun(t, "cas")
    /\ \E spurious \in BOOLEAN :
         IF cas_succeeds(seg_next[th[t].cur]) /\ ~spurious
         THEN /\ seg_next' = [seg_next EXCEPT ![th[t].cur] = th[t].newly]
              /\ links' = links \cup {<<th[t].cur, th[t].newly>>}
              /\ th' = [th EXCEPT ![t].pc = "get", ![t].cur = th[t].newly, ![t].newly = Null,
                                  ![t].remaining = @ - 1]
         ELSE /\ th' = [th EXCEPT ![t].pc = "free_loser"]
              /\ UNCHANGED <<seg_next, links>>
    /\ UNCHANGED <<physVars, elfVars, fdVars, pubVars, seqVars, slab_state, allocs, frees, drop_stack, slab_ret>>

\* variant: a thread whose compare_exchange fails goes on with the segment
\* it allocated itself
NextCasKeepsOwn(t) ==
    /\ SlabCanRun(t, "cas")
    /\ IF cas_succeeds(seg_next[th[t].cur])
       THEN /\ seg_next' = [seg_next EXCEPT ![th[t].cur] = th[t].newly]
            /\ links' = links \cup {<<th[t].cur, th[t].newly>>}
       ELSE UNCHANGED <<seg_next, links>>
    /\ th' = [th EXCEPT ![t].pc = "get", ![t].cur = th[t].newly, ![t].newly = Null,
                        ![t].remaining = @ - 1]
    /\ UNCHANGED <<physVars, elfVars, fdVars, pubVars, seqVars, slab_state, allocs, frees, drop_stack, slab_ret>>

\* Segment::next: the compare_exchange (segment.rs lines 33-40)
NextCas(t) ==
    /\ SlabCanRun(t, "cas")
    /\ IF cas_succeeds(seg_next[th[t].cur])
       THEN /\ seg_next' = [seg_next EXCEPT ![th[t].cur] = th[t].newly]
            /\ links' = links \cup {<<th[t].cur, th[t].newly>>}
            /\ th' = [th EXCEPT ![t].pc = "get", ![t].cur = th[t].newly, ![t].newly = Null,
                                ![t].remaining = @ - 1]
       ELSE /\ th' = [th EXCEPT ![t].pc = "free_loser"]
            /\ UNCHANGED <<seg_next, links>>
    /\ UNCHANGED <<physVars, elfVars, fdVars, pubVars, seqVars, slab_state, allocs, frees, drop_stack, slab_ret>>

\* variant: the segment that lost the race is forgotten instead of freed
NextFreeLoserLeak(t) ==
    /\ SlabCanRun(t, "free_loser")
    /\ th' = [th EXCEPT ![t].pc = "reload", ![t].newly = Null]
    /\ UNCHANGED <<physVars, elfVars, fdVars, pubVars, seqVars, slab_state, seg_next, allocs, frees, links, drop_stack, slab_ret>>

\* Segment::next: Box::from_raw(newly_allocated_ptr) is dropped (segment.rs
\* lines 41-45); the segment was never linked, so its own next is null
NextFreeLoser(t) ==
    /\ SlabCanRun(t, "free_loser")
    /\ frees' = [frees EXCEPT ![th[t].newly] = @ + 1]
    /\ th' = [th EXCEPT ![t].pc = "reload", ![t].newly = Null]
    /\ UNCHANGED <<physVars, elfVars, fdVars, pubVars, seqVars, slab_state, seg_next, allocs, links, drop_stack, slab_ret>>

\* Segment::next: the re-read of the pointer and `&*ptr` (segment.rs lines 47-54);
\* dereferencing a null pointer is undefined behaviour, kept as pc "ub"
NextReload(t) ==
    /\ SlabCanRun(t, "reload")
    /\ LET ptr == seg_next[th[t].cur] IN
       th' = IF ptr = Null
             THEN [th EXCEPT ![t].pc = "ub"]
             ELSE [th EXCEPT ![t].pc = "get", ![t].cur = ptr,
                             ![t].remaining = @ - 1]
    /\ UNCHANGED <<physVars, elfVars, fdVars, pubVars, seqVars, slab_state, seg_next, allocs, frees, links, drop_stack, slab_ret>>

\* KernelSlab::try_get(index), entry (lib.rs lines 31-37)
TryGetStart(t, index) ==
    /\ SlabCanRun(t, "idle")
    /\ th' = [th EXCEPT ![t] = [IdleThread EXCEPT !.pc = "try_get", !.op = "try_get",
                                     !.index = index,
                                     !.remaining = IndexOf(index).segment]]
    /\ UNCHANGED <<physVars, elfVars, fdVars, pubVars, seqVars, slab_state, seg_next, allocs, frees, links, drop_stack, slab_ret>>

\* variant: try_get links a new segment where the chain ends
TryGetStepLinking(t) ==
    /\ SlabCanRun(t, "try_get")
    /\ LET next == seg_next[th[t].cur] IN
       IF th[t].remaining = 0
       THEN /\ th' = [th EXCEPT ![t] = IdleThread]
            /\ slab_ret' = SlabCall("try_get", th[t].index,
                                    Some(Slot(th[t].cur, IndexOf(th[t].index).offset)))
            /\ UNCHANGED <<seg_next, allocs, links>>
       ELSE IF next = Null /\ allocs < MaxAllocs
       THEN /\ allocs' = allocs + 1
            /\ seg_next' = [seg_next EXCEPT ![th[t].cur] = allocs + 1]
            /\ links' = links \cup {<<th[t].cur, allocs + 1>>}
            /\ th' = [th EXCEPT ![t].cur = allocs + 1, ![t].remaining = @ - 1]
            /\ UNCHANGED slab_ret
       ELSE IF next = Null
       THEN /\ th' = [th EXCEPT ![t] = IdleThread]
            /\ slab_ret' = SlabCall("try_get", th[t].index, None)
            /\ UNCHANGED <<seg_next, allocs, links>>
       ELSE /\ th' = [th EXCEPT ![t].cur = next, ![t].remaining = @ - 1]
            /\ UNCHANGED <<slab_ret, seg_next, allocs, links>>
    /\ UNCHANGED <<physVars, elfVars, fdVars, pubVars, seqVars, slab_state, frees, drop_stack>>

\* KernelSlab::try_get: one `current.try_next()?` of the loop, or the return
\* after it (lib.rs lines 38-43)
TryGetStep(t) ==
    /\ SlabCanRun(t, "try_get")
    /\ LET next == seg_next[th[t].cur] IN
       IF th[t].remaining = 0
       THEN /\ th' = [th EXCEPT ![t] = IdleThread]
            /\ slab_ret' = SlabCall("try_get", th[t].index,
                                    Some(Slot(th[t].cur, IndexOf(th[t].index).offset)))
       ELSE IF next = Null
       THEN /\ th' = [th EXCEPT ![t] = IdleThread]
            /\ slab_ret' = SlabCall("try_get", th[t].index, None)
       ELSE /\ th' = [th EXCEPT ![t].cur = next, ![t].remaining = @ - 1]
            /\ UNCHANGED slab_ret
    /\ UNCHANGED <<physVars, elfVars, fdVars, pubVars, seqVars, slab_state, seg_next, allocs, frees, links, drop_stack>>

\* KernelSlab::iter: Iter::new(&self.head) (lib.rs lines 65-67, iter.rs 9-11);
\* the field index holds Iter.index, remaining counts the items yielded so far
IterStart(t) ==
    /\ SlabCanRun(t, "idle")
    /\ th' = [th EXCEPT ![t] = [IdleThread EXCEPT !.pc = "iter", !.op = "iter"]]
    /\ UNCHANGED <<physVars, elfVars, fdVars, pubVars, seqVars, slab_state, seg_next, allocs, frees, links, drop_stack, slab_ret>>

\* Iter::next (iter.rs lines 17-27); try_next()? returns None and leaves the
\* iterator as it was, so a later call continues once a segment is linked
IterNext(t) ==
    /\ SlabCanRun(t, "iter")
    /\ LET next == seg_next[th[t].cur] IN
       IF th[t].index >= SegmentSize
       THEN IF next = Null
            THEN /\ UNCHANGED th
                 /\ slab_ret' = SlabCall("iter_next", th[t].remaining, None)
            ELSE /\ th' = [th EXCEPT ![t].cur = next, ![t].index = 1, ![t].remaining = @ + 1]
                 /\ slab_ret' = SlabCall("iter_next", th[t].remaining, Some(Slot(next, 0)))
       ELSE /\ th' = [th EXCEPT ![t].index = @ + 1, ![t].remaining = @ + 1]
            /\ slab_ret' = SlabCall("iter_next", th[t].remaining,
                                    Some(Slot(th[t].cur, th[t].index)))
    /\ UNCHANGED <<physVars, elfVars, fdVars, pubVars, seqVars, slab_state, seg_next, allocs, frees, links, drop_stack>>

\* the caller drops the iterator, exhausted or not
IterDrop(t) ==
    /\ SlabCanRun(t, "iter")
    /\ th' = [th EXCEPT ![t] = IdleThread]
    /\ UNCHANGED <<physVars, elfVars, fdVars, pubVars, seqVars, slab_state, seg_next, allocs, frees, links, slab_ret, drop_stack>>

\* the KernelSlab is dropped: no reference into it is left, and the drop glue
\* calls Segment::drop on the head
SlabDrop ==
    /\ slab_state = "alive"
    /\ \A t \in Threads : th[t].pc = "idle"
    /\ slab_state' = "dropping"
    /\ drop_stack' = <<[seg |-> HeadSeg, phase |-> "swap"]>>
    /\ UNCHANGED <<physVars, elfVars, fdVars, pubVars, seqVars, seg_next, allocs, frees, links, th, slab_ret>>

\* the innermost Segment::drop returns; for a heap segment the Box that was
\* being dropped then frees its memory
DropFrameReturns(stack, fr) ==
    /\ drop_stack' = SubSeq(stack, 1, Len(stack) - 1)
    /\ frees' = IF fr.seg = HeadSeg THEN frees ELSE [frees EXCEPT ![fr.seg] = @ + 1]
    /\ slab_state' = IF Len(stack) = 1 THEN "dropped" ELSE slab_state

\* Segment::drop: next_segment.swap(null_mut()) and, when it was not null,
\* Box::from_raw(next) and drop(next), which runs Segment::drop of the next
\* segment inside this call (segment.rs lines 83-95)
DropSwap ==
    /\ slab_state = "dropping"
    /\ drop_stack # <<>>
    /\ LET fr == drop_stack[Len(drop_stack)]
           next == seg_next[fr.seg]
       IN  /\ fr.phase = "swap"
           /\ seg_next' = [seg_next EXCEPT ![fr.seg] = Null]
           /\ IF next = Null
              THEN DropFrameReturns(drop_stack, fr)
              ELSE /\ drop_stack' = [drop_stack EXCEPT ![Len(drop_stack)].phase = "child"]
                                       \o <<[seg |-> next, phase |-> "swap"]>>
                   /\ UNCHANGED <<frees, slab_state>>
    /\ UNCHANGED <<physVars, elfVars, fdVars, pubVars, seqVars, allocs, links, th, slab_ret>>

\* Segment::drop returns after drop(next) has returned (segment.rs lines 95-96)
DropReturn ==
    /\ slab_state = "dropping"
    /\ drop_stack # <<>>
    /\ LET fr == drop_stack[Len(drop_stack)] IN
       /\ fr.phase = "child"
       /\ DropFrameReturns(drop_stack, fr)
    /\ UNCHANGED <<physVars, elfVars, fdVars, pubVars, seqVars, seg_next, allocs, links, th, slab_ret>>

InitSlabSpec == PhysIdle /\ InitSlab /\ ElfIdle /\ FdIdle

\* KernelSlab::get on every thread, then the drop of the slab
NextSlab ==
    \/ \E t \in Threads, index \in 0..MaxIndex : GetStart(t, index)
    \/ \E t \in Threads : GetReturn(t)
    \/ \E t \in Threads : NextLoad(t)
    \/ \E t \in Threads : NextAlloc(t)
    \/ \E t \in Threads : NextCas(t)
    \/ \E t \in Threads : NextFreeLoser(t)
    \/ \E t \in Threads : NextReload(t)
    \/ SlabDrop
    \/ DropSwap
    \/ DropReturn

SpecSlab == InitSlabSpec /\ [][NextSlab]_vars

\* one thread grows the slab with get while every thread reads it
Writer == 1

NextSlabRead ==
    \/ \E index \in 0..MaxIndex : GetStart(Writer, index)
    \/ GetReturn(Writer)
    \/ NextLoad(Writer)
    \/ NextAlloc(Writer)
    \/ NextCas(Writer)
    \/ \E t \in Threads, index \in 0..MaxIndex : TryGetStart(t, index)
    \/ \E t \in Threads : TryGetStep(t)
    \/ \E t \in Threads : IterStart(t)
    \/ \E t \in Threads : IterNext(t)
    \/ \E t \in Threads : IterDrop(t)
    \/ SlabDrop
    \/ DropSwap
    \/ DropReturn

SpecSlabRead == InitSlabSpec /\ [][NextSlabRead]_vars

\* every thread grows the slab with get, and races the others for each new
\* segment, while one of them calls try_get and iter as well; a reader only
\* loads pointers (C20), so a second reader would see what the first one sees
Reader == 1

NextSlabShared ==
    \/ \E t \in Threads, index \in 0..MaxIndex : GetStart(t, index)
    \/ \E t \in Threads : GetReturn(t)
    \/ \E t \in Threads : NextLoad(t)
    \/ \E t \in Threads : NextAlloc(t)
    \/ \E t \in Threads : NextCas(t)
    \/ \E t \in Threads : NextFreeLoser(t)
    \/ \E t \in Threads : NextReload(t)
    \/ \E index \in 0..MaxIndex : TryGetStart(Reader, index)
    \/ TryGetStep(Reader)
    \/ IterStart(Reader)
    \/ IterNext(Reader)
    \/ IterDrop(Reader)
    \/ SlabDrop
    \/ DropSwap
    \/ DropReturn

SpecSlabShared == InitSlabSpec /\ [][NextSlabShared]_vars

----------------------------------------------------------------------------
(* Publication of a segment, with the memory orderings of the code.  Every *)
(* thread calls Segment::next on the head segment and then reads a slot of *)
(* the segment it got.  A plain write reaches memory some time after it    *)
(* was issued; only a store with release ordering waits for the earlier    *)
(* writes of its thread, and only a load with acquire ordering keeps the   *)
(* later reads of its thread behind it.                                    *)

\* compare_exchange(.., Acquire, Relaxed): the ordering on success (line 36)
cas_success_ordering == "Acquire"

\* the ordering on failure (line 37)
cas_failure_ordering == "Relaxed"

\* next_segment.load(Acquire) (lines 47 and 61)
load_ordering == "Acquire"

\* the store half of an operation with this ordering is a release store
is_release(ordering) == ordering \in {"Release", "AcqRel", "SeqCst"}

\* the load half of an operation with this ordering is an acquire load
is_acquire(ordering) == ordering \in {"Acquire", "AcqRel", "SeqCst"}

\* Segment::next: the try_next() load (segment.rs lines 25, 61)
PublishTryNext(t) ==
    /\ pub[t].pc = "try_next"
    /\ pub' = IF head_next # Null
              THEN [pub EXCEPT ![t].pc = "read", ![t].seg = head_next]
              ELSE [pub EXCEPT ![t].pc = "new"]
    /\ UNCHANGED <<physVars, elfVars, fdVars, seqVars, slab_state, seg_next, allocs, frees, links, th,
                   slab_ret, drop_stack, head_next, seg_mem, store_buf>>

\* Box::new(Self::new()): the thread writes V::default() into every slot of
\* its new segment (segment.rs lines 17-22, 31-32)
PublishNew(t) ==
    /\ pub[t].pc = "new"
    /\ store_buf' = [store_buf EXCEPT ![t] = 0..(SegmentSize - 1)]
    /\ pub' = [pub EXCEPT ![t].pc = "cas"]
    /\ UNCHANGED <<physVars, elfVars, fdVars, seqVars, slab_state, seg_next, allocs, frees, links, th,
                   slab_ret, drop_stack, head_next, seg_mem>>

\* one write of the thread reaches memory
PublishFlush(t, i) ==
    /\ i \in store_buf[t]
    /\ store_buf' = [store_buf EXCEPT ![t] = @ \ {i}]
    /\ seg_mem' = [seg_mem EXCEPT ![t][i] = "default"]
    /\ UNCHANGED <<physVars, elfVars, fdVars, seqVars, slab_state, seg_next, allocs, frees, links, th,
                   slab_ret, drop_stack, head_next, pub>>

\* the compare_exchange (segment.rs lines 33-40): a release store waits until
\* the earlier writes of the thread have reached memory
PublishCas(t) ==
    /\ pub[t].pc = "cas"
    /\ is_release(cas_success_ordering) => store_buf[t] = {}
    /\ IF cas_succeeds(head_next)
       THEN /\ head_next' = t
            /\ pub' = [pub EXCEPT ![t].pc = "read", ![t].seg = t]
       ELSE /\ pub' = [pub EXCEPT ![t].pc = "reload"]
            /\ UNCHANGED head_next
    /\ UNCHANGED <<physVars, elfVars, fdVars, seqVars, slab_state, seg_next, allocs, frees, links, th,
                   slab_ret, drop_stack, seg_mem, store_buf>>

\* the loser frees its segment and re-reads the pointer (segment.rs lines 41-47)
PublishReload(t) ==
    /\ pub[t].pc = "reload"
    /\ store_buf' = [store_buf EXCEPT ![t] = {}]
    /\ pub' = [pub EXCEPT ![t].pc = "read", ![t].seg = head_next]
    /\ UNCHANGED <<physVars, elfVars, fdVars, seqVars, slab_state, seg_next, allocs, frees, links, th,
                   slab_ret, drop_stack, head_next, seg_mem>>

\* what a thread may read in slot i of the segment of thread s: its own
\* writes always; the memory contents when its load of the pointer was an
\* acquire load; otherwise the read may also be served from before the
\* segment was written
slot_values(t, s, i) ==
    IF s = t THEN {"default"}
    ELSE IF is_acquire(load_ordering) THEN {seg_mem[s][i]}
    ELSE {seg_mem[s][i], "uninit"}

\* the caller reads slot i of the segment Segment::next returned (Deref,
\* segment.rs lines 74-80)
PublishRead(t, i) ==
    /\ pub[t].pc = "read"
    /\ \E v \in slot_values(t, pub[t].seg, i) :
          pub' = [pub EXCEPT ![t].pc = "done", ![t].seen = Some(v)]
    /\ UNCHANGED <<physVars, elfVars, fdVars, seqVars, slab_state, seg_next, allocs, frees, links, th,
                   slab_ret, drop_stack, head_next, seg_mem, store_buf>>

NextPublish ==
    \/ \E t \in Threads : PublishTryNext(t)
    \/ \E t \in Threads : PublishNew(t)
    \/ \E t \in Threads : \E i \in 0..(SegmentSize - 1) : PublishFlush(t, i)
    \/ \E t \in Threads : PublishCas(t)
    \/ \E t \in Threads : PublishReload(t)
    \/ \E t \in Threads : \E i \in 0..(SegmentSize - 1) : PublishRead(t, i)

SpecPublish == InitSlabSpec /\ [][NextPublish]_vars

----------------------------------------------------------------------------
(* A slab used from one thread.  No other thread runs between the steps of *)
(* a call, so one action is one whole call; the slots carry their values.  *)

\* the state of the slab that several threads share
chainVars == <<slab_state, seg_next, allocs, frees, links, th, slab_ret, drop_stack>>

\* a store through a shared reference to the slot, as push_str on the locked
\* String of the tests does (lib.rs lines 83-84, 101)
store(chain, slot) == [chain EXCEPT ![slot.seg + 1][slot.offset] = Written]

\* slab.get(index)
SeqGet(index) ==
    /\ sq_pc.at = "free"
    /\ \E o \in {get(sq_chain, index, sq_n)} :
         /\ sq_chain' = o.chain
         /\ sq_ret' = SlabCall("get", index, Some(o.slot))
    /\ UNCHANGED <<physVars, elfVars, fdVars, chainVars, pubVars, sq_n, sq_written, sq_iter,
                   sq_items, sq_pc>>

\* the caller writes through the reference the last get returned
SeqWrite ==
    /\ sq_pc.at = "free"
    /\ sq_ret.op = "get"
    /\ sq_chain' = store(sq_chain, Unwrap(sq_ret.result))
    /\ sq_written' = sq_written \cup {Unwrap(sq_ret.result)}
    /\ UNCHANGED <<physVars, elfVars, fdVars, chainVars, pubVars, sq_n, sq_iter, sq_items, sq_ret,
                   sq_pc>>

\* slab.try_get(index)
SeqTryGet(index) ==
    /\ sq_pc.at = "free"
    /\ sq_ret' = SlabCall("try_get", index, try_get(sq_chain, index, sq_n))
    /\ UNCHANGED <<physVars, elfVars, fdVars, chainVars, pubVars, sq_n, sq_chain, sq_written,
                   sq_iter, sq_items, sq_pc>>

\* slab.iter(); an earlier iterator is dropped (lib.rs lines 65-67)
SeqIter ==
    /\ sq_pc.at = "free"
    /\ sq_iter' = Some(iter_new)
    /\ sq_items' = <<>>
    /\ sq_ret' = SlabCall("iter", 0, None)
    /\ UNCHANGED <<physVars, elfVars, fdVars, chainVars, pubVars, sq_n, sq_chain, sq_written,
                   sq_pc>>

\* Iter::next on the live iterator; the call record holds the number of the
\* item, counted from 0
IterStep ==
    /\ IsSome(sq_iter)
    /\ \E o \in {iter_next(sq_chain, Unwrap(sq_iter), sq_n)} :
         /\ sq_iter' = Some(o.it)
         /\ sq_items' = IF IsSome(o.item) THEN Append(sq_items, Unwrap(o.item)) ELSE sq_items
         /\ sq_ret' = SlabCall("iter_next", Len(sq_items), o.item)

SeqIterNext ==
    /\ sq_pc.at = "free"
    /\ IterStep
    /\ UNCHANGED <<physVars, elfVars, fdVars, chainVars, pubVars, sq_n, sq_chain, sq_written,
                   sq_pc>>

NextSlabSeq ==
    \/ \E index \in 0..MaxIndex : SeqGet(index)
    \/ SeqWrite
    \/ \E index \in 0..MaxIndex : SeqTryGet(index)
    \/ SeqIter
    \/ SeqIterNext

SpecSlabSeq == InitSlabSpec /\ [][NextSlabSeq]_vars

\* tests::test_iter: KernelSlab::<Mutex<String>, 20> (lib.rs line 99)
TestSegmentSize == 20

\* tests::test_iter: for i in 0..35 (lib.rs line 100)
TestSlots == 35

\* tests::test_iter, the body of the loop: slab.get(i) and push_str("hello")
\* on the slot (lib.rs lines 100-102)
TestIterFill ==
    /\ sq_pc.at = "fill"
    /\ sq_pc.i < TestSlots
    /\ \E o \in {get(sq_chain, sq_pc.i, sq_n)} :
         /\ sq_chain' = store(o.chain, o.slot)
         /\ sq_written' = sq_written \cup {o.slot}
         /\ sq_ret' = SlabCall("get", sq_pc.i, Some(o.slot))
    /\ sq_pc' = [sq_pc EXCEPT !.i = @ + 1]
    /\ UNCHANGED <<physVars, elfVars, fdVars, chainVars, pubVars, sq_n, sq_iter, sq_items>>

\* tests::test_iter, after the loop: slab.iter() (lib.rs line 111)
TestIterStart ==
    /\ sq_pc.at = "fill"
    /\ sq_pc.i = TestSlots
    /\ sq_iter' = Some(iter_new)
    /\ sq_items' = <<>>
    /\ sq_ret' = SlabCall("iter", 0, None)
    /\ sq_pc' = [sq_pc EXCEPT !.at = "iterating"]
    /\ UNCHANGED <<physVars, elfVars, fdVars, chainVars, pubVars, sq_n, sq_chain, sq_written>>

\* tests::test_iter: filter(..).count() drives the iterator until it returns
\* None (lib.rs line 111)
TestIterNext ==
    /\ sq_pc.at = "iterating"
    /\ IterStep
    /\ sq_pc' = IF IsSome(sq_ret'.result) THEN sq_pc ELSE [sq_pc EXCEPT !.at = "counted"]
    /\ UNCHANGED <<physVars, elfVars, fdVars, chainVars, pubVars, sq_n, sq_chain, sq_written>>

\* the program of tests::test_iter on a slab of the test's segment size and
\* on one of the model's segment size
InitSlabTest ==
    /\ PhysIdle
    /\ ElfIdle /\ FdIdle
    /\ slab_state = "alive"
    /\ seg_next = [s \in SegIds |-> Null]
    /\ allocs = 0
    /\ frees = [s \in SegIds |-> 0]
    /\ links = {}
    /\ th = [t \in Threads |-> IdleThread]
    /\ slab_ret = SlabCall("new", 0, None)
    /\ drop_stack = <<>>
    /\ PublishStart
    /\ \E n \in {SegmentSize, TestSegmentSize} : SeqNew(n, [at |-> "fill", i |-> 0])

NextSlabTest ==
    \/ TestIterFill
    \/ TestIterStart
    \/ TestIterNext

SpecSlabTest == InitSlabTest /\ [][NextSlabTest]_vars

----------------------------------------------------------------------------
(* Properties of the slab *)

\* the heap segments allocated so far
AllocatedSegs == 1..allocs

\* s was stored into some next_segment pointer
Linked(s) == \E l \in links : l[2] = s

\* s is held by a thread inside Segment::next, between Box::new and the
\* outcome of the compare_exchange
InFlight(s) == \E t \in Threads : th[t].newly = s /\ th[t].pc \in {"cas", "free_loser"}

\* C3: while the slab is alive a next pointer that is not null is never
\* written again, so it changes at most once (from null to one segment), and
\* no segment ever gets a second successor linked, however many threads race.
C3_NextPointerSetOnce ==
    /\ [][slab_state = "alive" =>
            \A s \in SegIds : seg_next[s] # Null => seg_next'[s] = seg_next[s]]_vars
    /\ [](\A s \in SegIds : Cardinality({l \in links : l[1] = s}) <= 1)

\* two threads raced at the head: one segment is linked there, the other
\* lost the compare_exchange and was freed
C3_Witness ==
    /\ slab_state = "alive"
    /\ seg_next[HeadSeg] # Null
    /\ \E s \in AllocatedSegs : frees[s] = 1 /\ ~Linked(s)

\* C4: every heap segment is freed exactly once: a segment that lost the
\* compare_exchange is freed by its thread inside next and was never linked,
\* a linked segment is not freed while the slab is alive, no segment is freed
\* twice, and once the slab is dropped every allocated segment has been freed.
C4_EverySegmentFreedOnce ==
    \A s \in AllocatedSegs :
        /\ frees[s] <= 1
        /\ slab_state = "alive" => (Linked(s) => frees[s] = 0)
        /\ InFlight(s) => ~Linked(s) /\ frees[s] = 0
        /\ slab_state # "dropped" => (frees[s] = 0 => Linked(s) \/ InFlight(s))
        /\ \A t \in Threads : th[t].pc \in {"idle", "get", "alloc", "reload"} => th[t].newly # s
        /\ slab_state = "dropped" => frees[s] = 1

\* the slab was dropped after a chain of two heap segments had been built and
\* a third segment had lost a race
C4_Witness ==
    /\ slab_state = "dropped"
    /\ Cardinality(links) >= 2
    /\ \E s \in AllocatedSegs : ~Linked(s)

----------------------------------------------------------------------------
(* Operations of the ELF loader.  ElfLoader::load is one sequential call;   *)
(* every action is one stretch of it up to the next MemoryApi call, and the *)
(* result of a MemoryApi call is chosen by the environment.                 *)

\* the LOAD headers of the file being loaded, as positions in its header table
LoadHeaders == program_headers_by_type(elf_file, PT_LOAD)

TlsHeaders == program_headers_by_type(elf_file, PT_TLS)

\* the header the loop of load_loadable_headers is at
CurrentHeader == elf_file.headers[LoadHeaders[elf_idx]]

\* load stops: it returns an error or panics
ElfStop(result) ==
    /\ elf_result' = result
    /\ elf_pc' = "done"

\* the loop of load_loadable_headers moves to header i, or load_tls starts
ElfContinueAt(i) ==
    /\ elf_idx' = i
    /\ elf_pc' = IF i > Len(LoadHeaders) THEN "tls" ELSE "allocate"

\* MemoryApi::allocate as the loader calls it (lib.rs lines 96-98, 145-147)
AllocateCall(segment, location, hdr) ==
    [op |-> "allocate", segment |-> segment, location |-> location,
     size |-> hdr.memsz, align |-> hdr.align]

TransitionCall(op, segment) ==
    [op |-> op, segment |-> segment, location |-> None, size |-> 0, align |-> 0]

\* a fresh WritableAllocation of memsz bytes; its bytes are not initialised
\* by the loader and hold `prior`
NewAllocation(segment, location, hdr, prior) ==
    [segment |-> segment, location |-> location, size |-> hdr.memsz,
     bytes |-> [i \in 1..hdr.memsz |-> prior], access |-> "writable"]

\* variant: load does not look at the type of the file
ElfLoadStartAnyType ==
    /\ elf_pc = "start"
    /\ ElfContinueAt(1)
    /\ UNCHANGED <<physVars, slabVars, fdVars, file_ret, elf_file, elf_alloc, image, mem_log, elf_result>>

\* load, up to the loop (lib.rs lines 63-77)
ElfLoadStart ==
    /\ elf_pc = "start"
    /\ IF elf_file.typ # ElfTypeExec
       THEN /\ ElfStop(LoadPanic(ExecOnlyMessage))
            /\ UNCHANGED elf_idx
       ELSE /\ ElfContinueAt(1)
            /\ UNCHANGED elf_result
    /\ UNCHANGED <<physVars, slabVars, fdVars, file_ret, elf_file, elf_alloc, image, mem_log>>

\* variant: a LOAD header whose allocation fails is skipped
LoadAllocateSkipsFailed ==
    /\ elf_pc = "allocate"
    /\ LET hdr == CurrentHeader
           location == Some(hdr.vaddr)
       IN  IF ~program_data_in_range(hdr)
           THEN ElfStop(LoadPanic(SliceMessage(hdr.offset, SourceLen))) /\ UNCHANGED <<elf_alloc, mem_log, elf_idx>>
           ELSE IF ~canonical(hdr.vaddr)
           THEN ElfStop(LoadErr("InvalidVirtualAddress")) /\ UNCHANGED <<elf_alloc, mem_log, elf_idx>>
           ELSE IF ~layout_valid(hdr.memsz, hdr.align)
           THEN ElfStop(LoadErr("InvalidSizeOrAlign")) /\ UNCHANGED <<elf_alloc, mem_log, elf_idx>>
           ELSE /\ mem_log' = Append(mem_log, AllocateCall(LoadHeaders[elf_idx], location, hdr))
                /\ \E allocated \in BOOLEAN, prior \in PriorBytes :
                     IF allocated
                     THEN /\ elf_alloc' = Some(NewAllocation(LoadHeaders[elf_idx], location, hdr,
                                                             prior))
                          /\ elf_pc' = "fill"
                          /\ UNCHANGED <<elf_result, elf_idx>>
                     ELSE /\ ElfContinueAt(elf_idx + 1)
                          /\ UNCHANGED <<elf_alloc, elf_result>>
    /\ UNCHANGED <<physVars, slabVars, fdVars, file_ret, elf_file, image>>

\* load_loadable_headers: program_data, the address, the layout and the
\* allocation of one LOAD header (lib.rs lines 89-99)
LoadAllocate ==
    /\ elf_pc = "allocate"
    /\ LET hdr == CurrentHeader
           location == Some(hdr.vaddr)
       IN  IF ~program_data_in_range(hdr)
           THEN ElfStop(LoadPanic(SliceMessage(hdr.offset, SourceLen))) /\ UNCHANGED <<elf_alloc, mem_log>>
           ELSE IF ~canonical(hdr.vaddr)
           THEN ElfStop(LoadErr("InvalidVirtualAddress")) /\ UNCHANGED <<elf_alloc, mem_log>>
           ELSE IF ~layout_valid(hdr.memsz, hdr.align)
           THEN ElfStop(LoadErr("InvalidSizeOrAlign")) /\ UNCHANGED <<elf_alloc, mem_log>>
           ELSE /\ mem_log' = Append(mem_log, AllocateCall(LoadHeaders[elf_idx], location, hdr))
                /\ \E allocated \in BOOLEAN, prior \in PriorBytes :
                     IF allocated
                     THEN /\ elf_alloc' = Some(NewAllocation(LoadHeaders[elf_idx], location, hdr,
                                                             prior))
                          /\ elf_pc' = "fill"
                          /\ UNCHANGED elf_result
                     ELSE /\ ElfStop(LoadErr("AllocationFailed"))
                          /\ UNCHANGED elf_alloc
    /\ UNCHANGED <<physVars, slabVars, fdVars, file_ret, elf_file, elf_idx, image>>

\* variant: the bytes after the file content are left as they were
FillCopyOnly(hdr, then) ==
    IF hdr.filesz > hdr.memsz
    THEN ElfStop(LoadPanic(RangeMessage)) /\ UNCHANGED elf_alloc
    ELSE /\ elf_alloc' = Some([Unwrap(elf_alloc) EXCEPT !.bytes =
                            [i \in 1..hdr.memsz |->
                               IF i <= hdr.filesz THEN program_data(hdr)[i]
                               ELSE Unwrap(elf_alloc).bytes[i]]])
         /\ elf_pc' = then
         /\ UNCHANGED elf_result

\* slice[..filesz].copy_from_slice(pdata); slice[filesz..].fill(0)
\* (lib.rs lines 101-103, 150-152); the slice has memsz bytes
Fill(hdr, then) ==
    IF hdr.filesz > hdr.memsz
    THEN ElfStop(LoadPanic(RangeMessage)) /\ UNCHANGED elf_alloc
    ELSE /\ elf_alloc' = Some([Unwrap(elf_alloc) EXCEPT !.bytes =
                            [i \in 1..hdr.memsz |->
                               IF i <= hdr.filesz THEN program_data(hdr)[i] ELSE 0]])
         /\ elf_pc' = then
         /\ UNCHANGED elf_result

LoadFill ==
    /\ elf_pc = "fill"
    /\ Fill(CurrentHeader, "permission")
    /\ UNCHANGED <<physVars, slabVars, fdVars, file_ret, elf_file, elf_idx, image, mem_log>>

\* variant: only the flag word W|X, without the readable bit, is refused
executable_and_writable_exact(flags) == flags = EXECUTABLE + WRITABLE

\* the condition of the assert! (lib.rs lines 105-109)
executable_and_writable(flags) ==
    contains(flags, EXECUTABLE) /\ contains(flags, WRITABLE)

\* variant: the allocation is put in front of the collection
TransitionInFront(op, access, field) ==
    /\ mem_log' = Append(mem_log, TransitionCall(op, Unwrap(elf_alloc).segment))
    /\ \E ok \in BOOLEAN :
         IF ok
         THEN /\ image' = [image EXCEPT ![field] =
                              <<[Unwrap(elf_alloc) EXCEPT !.access = access]>> \o @]
              /\ ElfContinueAt(elf_idx + 1)
              /\ UNCHANGED elf_result
         ELSE /\ ElfStop(LoadErr("AllocationFailed"))
              /\ UNCHANGED <<image, elf_idx>>

\* a MemoryApi transition of the current allocation, pushed on success into
\* the collection `field`
Transition(op, access, field) ==
    /\ mem_log' = Append(mem_log, TransitionCall(op, Unwrap(elf_alloc).segment))
    /\ \E ok \in BOOLEAN :
         IF ok
         THEN /\ image' = [image EXCEPT ![field] =
                              Append(@, [Unwrap(elf_alloc) EXCEPT !.access = access])]
              /\ ElfContinueAt(elf_idx + 1)
              /\ UNCHANGED elf_result
         ELSE /\ ElfStop(LoadErr("AllocationFailed"))
              /\ UNCHANGED <<image, elf_idx>>

\* load_loadable_headers: the W+X assert and the classification of the
\* allocation (lib.rs lines 105-124)
LoadPermission ==
    /\ elf_pc = "permission"
    /\ LET hdr == CurrentHeader IN
       IF executable_and_writable(hdr.flags)
       THEN /\ ElfStop(LoadPanic(WritableExecutableMessage))
            /\ UNCHANGED <<image, mem_log, elf_idx>>
       ELSE IF contains(hdr.flags, EXECUTABLE)
       THEN Transition("make_executable", "executable", "executable_allocations")
       ELSE IF contains(hdr.flags, WRITABLE)
       THEN /\ image' = [image EXCEPT !.writable_allocations = Append(@, Unwrap(elf_alloc))]
            /\ ElfContinueAt(elf_idx + 1)
            /\ UNCHANGED <<mem_log, elf_result>>
       ELSE Transition("make_readonly", "readonly", "readonly_allocations")
    /\ elf_alloc' = None
    /\ UNCHANGED <<physVars, slabVars, fdVars, file_ret, elf_file>>

\* variant: of several TLS headers the first one is loaded
LoadTlsAllocateFirst ==
    /\ elf_pc = "tls"
    /\ IF Len(TlsHeaders) = 0
       THEN ElfStop(LoadOk) /\ UNCHANGED <<elf_alloc, mem_log>>
       ELSE LET tls == elf_file.headers[TlsHeaders[1]] IN
            IF ~program_data_in_range(tls)
            THEN ElfStop(LoadPanic(SliceMessage(tls.offset, SourceLen))) /\ UNCHANGED <<elf_alloc, mem_log>>
            ELSE IF ~layout_valid(tls.memsz, tls.align)
            THEN ElfStop(LoadErr("InvalidSizeOrAlign")) /\ UNCHANGED <<elf_alloc, mem_log>>
            ELSE /\ mem_log' = Append(mem_log, AllocateCall(TlsHeaders[1], None, tls))
                 /\ \E allocated \in BOOLEAN, prior \in PriorBytes :
                      IF allocated
                      THEN /\ elf_alloc' = Some(NewAllocation(TlsHeaders[1], None, tls, prior))
                           /\ elf_pc' = "tls_fill"
                           /\ UNCHANGED elf_result
                      ELSE /\ ElfStop(LoadErr("AllocationFailed"))
                           /\ UNCHANGED elf_alloc
    /\ UNCHANGED <<physVars, slabVars, fdVars, file_ret, elf_file, elf_idx, image>>

\* load_tls: at_most_one, program_data, the layout and the allocation
\* (lib.rs lines 130-148); without a TLS header load returns the image
LoadTlsAllocate ==
    /\ elf_pc = "tls"
    /\ IF Len(TlsHeaders) > 1
       THEN ElfStop(LoadErr("TooManyTlsHeaders")) /\ UNCHANGED <<elf_alloc, mem_log>>
       ELSE IF Len(TlsHeaders) = 0
       THEN ElfStop(LoadOk) /\ UNCHANGED <<elf_alloc, mem_log>>
       ELSE LET tls == elf_file.headers[TlsHeaders[1]] IN
            IF ~program_data_in_range(tls)
            THEN ElfStop(LoadPanic(SliceMessage(tls.offset, SourceLen))) /\ UNCHANGED <<elf_alloc, mem_log>>
            ELSE IF ~layout_valid(tls.memsz, tls.align)
            THEN ElfStop(LoadErr("InvalidSizeOrAlign")) /\ UNCHANGED <<elf_alloc, mem_log>>
            ELSE /\ mem_log' = Append(mem_log, AllocateCall(TlsHeaders[1], None, tls))
                 /\ \E allocated \in BOOLEAN, prior \in PriorBytes :
                      IF allocated
                      THEN /\ elf_alloc' = Some(NewAllocation(TlsHeaders[1], None, tls, prior))
                           /\ elf_pc' = "tls_fill"
                           /\ UNCHANGED elf_result
                      ELSE /\ ElfStop(LoadErr("AllocationFailed"))
                           /\ UNCHANGED elf_alloc
    /\ UNCHANGED <<physVars, slabVars, fdVars, file_ret, elf_file, elf_idx, image>>

LoadTlsFill ==
    /\ elf_pc = "tls_fill"
    /\ Fill(elf_file.headers[TlsHeaders[1]], "tls_readonly")
    /\ UNCHANGED <<physVars, slabVars, fdVars, file_ret, elf_file, elf_idx, image, mem_log>>

\* load_tls: make_readonly and tls_allocation = Some(alloc), then Ok(image)
\* (lib.rs lines 154-161, 80)
LoadTlsReadonly ==
    /\ elf_pc = "tls_readonly"
    /\ mem_log' = Append(mem_log, TransitionCall("make_readonly", Unwrap(elf_alloc).segment))
    /\ \E ok \in BOOLEAN :
         IF ok
         THEN /\ image' = [image EXCEPT !.tls_allocation =
                              Some([Unwrap(elf_alloc) EXCEPT !.access = "readonly"])]
              /\ ElfStop(LoadOk)
         ELSE /\ ElfStop(LoadErr("AllocationFailed"))
              /\ UNCHANGED image
    /\ elf_alloc' = None
    /\ UNCHANGED <<physVars, slabVars, fdVars, file_ret, elf_file, elf_idx>>

InitElf == PhysIdle /\ SlabIdle /\ FdIdle /\ \E file \in ElfFiles : ElfReady(file)

NextElf ==
    \/ ElfLoadStart
    \/ LoadAllocate
    \/ LoadFill
    \/ LoadPermission
    \/ LoadTlsAllocate
    \/ LoadTlsFill
    \/ LoadTlsReadonly

SpecElf == InitElf /\ [][NextElf]_vars

----------------------------------------------------------------------------
(* ElfFile (file.rs).  try_parse, section_name and symbol_name are         *)
(* functions of their arguments; an action is one call on a file on which  *)
(* nothing was called before, and the call with its arguments and its      *)
(* result is kept in file_ret.                                             *)

\* the variables of ElfLoader::load
loaderVars == <<elf_file, elf_pc, elf_idx, elf_alloc, image, mem_log, elf_result>>

\* size_of::<ElfHeader>()
HeaderSize == 64

\* size_of::<ProgramHeader>()
ProgramHeaderSize == 56

\* size_of::<SectionHeader>()
SectionHeaderSize == 64

\* ENDIAN on a little-endian target such as x86_64
ENDIAN == 1

\* the ELF magic (file.rs line 43)
ElfMagic == <<127, 69, 76, 70>>

\* the discriminants of ElfType, None to Core (file.rs lines 176-183)
ElfTypeValues == 0..4

FileOk == [kind |-> "Ok", what |-> "file"]

FileErr(e) == [kind |-> "Err", what |-> e]

FilePanic(message) == [kind |-> "Panic", what |-> message]

FileSome(str) == [kind |-> "Some", what |-> str]

FileNone == [kind |-> "None", what |-> <<>>]

\* ElfHeader::try_ref_from_bytes on a slice of HeaderSize bytes: the slice is
\* aligned for ElfHeader and the only field with invalid bit patterns, typ,
\* holds a discriminant of ElfType
header_parses(src) == src.aligned /\ src.typ \in ElfTypeValues

\* ElfFile::try_parse (file.rs lines 34-66); &source[..size_of::<ElfHeader>()]
\* panics when the source is shorter than the header
try_parse(src) ==
    IF src.len < HeaderSize THEN FilePanic(RangeMessage)
    ELSE IF ~header_parses(src) THEN FileErr("HeaderParseError")
    ELSE IF src.magic # ElfMagic THEN FileErr("InvalidMagic")
    ELSE IF src.data # ENDIAN THEN FileErr("UnsupportedEndian")
    ELSE IF src.phentsize # ProgramHeaderSize THEN FileErr("InvalidPhEntSize")
    ELSE IF src.shentsize # SectionHeaderSize THEN FileErr("InvalidShEntSize")
    ELSE IF src.ident_version # 1 \/ src.version # 1 THEN FileErr("UnsupportedElfVersion")
    ELSE IF src.os_abi # 0 THEN FileErr("UnsupportedOsAbi")
    ELSE FileOk

\* the buffers handed to try_parse: their length, whether they are aligned
\* for ElfHeader, and the header fields try_parse looks at, each with a good
\* and a bad value
ParseSources ==
    [len : {0, HeaderSize - 1, HeaderSize, HeaderSize + 1},
     aligned : BOOLEAN,
     typ : {2, 5},
     magic : {ElfMagic, <<127, 69, 76, 71>>},
     data : {1, 2},
     phentsize : {ProgramHeaderSize, SectionHeaderSize},
     shentsize : {SectionHeaderSize, ProgramHeaderSize},
     ident_version : {1, 0},
     version : {1, 2},
     os_abi : {0, 3}]

\* the bytes of the model's sources: NUL, the letter a, and 0xFF, which no
\* UTF-8 string contains
StringBytes == {0, 97, 255}

\* the first position from i on that holds a NUL, or 0
RECURSIVE NulPosition(_, _)
NulPosition(bytes, i) ==
    IF i > Len(bytes) THEN 0
    ELSE IF bytes[i] = 0 THEN i
    ELSE NulPosition(bytes, i + 1)

\* CStr::from_bytes_until_nul(..).ok(): the bytes before the first NUL
from_bytes_until_nul(bytes) ==
    IF NulPosition(bytes, 1) = 0 THEN None
    ELSE Some(SubSeq(bytes, 1, NulPosition(bytes, 1) - 1))

\* CStr::to_str(..).ok(): of the model's bytes only 0xFF breaks UTF-8
to_str(bytes) ==
    IF \A i \in 1..Len(bytes) : bytes[i] < 128 THEN Some(bytes) ELSE None

\* the section header table as ElfFile::headers finds it (file.rs lines
\* 95-106): its slice starts past the source, ends past it, lies inside it
\* with headers that are not aligned for SectionHeader, or is well-formed
ShTables == {"start", "end", "unaligned", "parsed"}

\* section_headers().nth(index): the slicing of the table panics when it is
\* out of range; nth walks the headers from the first one on and unwraps
\* each parse result, so a misaligned table panics unless it is empty
\* (file.rs lines 101-105, 114-116, 143)
section_header_nth(file, index) ==
    IF file.sh_table = "start" THEN FilePanic(RangeStartMessage)
    ELSE IF file.sh_table = "end" THEN FilePanic(RangeMessage)
    ELSE IF file.sections = <<>> THEN FileNone
    ELSE IF file.sh_table = "unaligned" THEN FilePanic(UnwrapMessage)
    ELSE IF index >= Len(file.sections) THEN FileNone
    ELSE FileSome(file.sections[index + 1])

\* section_data: &source[header.offset .. header.offset + header.size] is in
\* range (file.rs lines 108-110)
section_data_in_range(file, header) == header.offset + header.size <= Len(file.source)

section_data(file, header) ==
    SubSeq(file.source, header.offset + 1, header.offset + header.size)

\* the body shared by section_name and symbol_name: section_headers() slices
\* the header table out of the source, nth(table_index)? picks the string
\* table, section_data slices its bytes, &data[name..] the bytes from the
\* name on, and the C string up to the first NUL is checked for UTF-8
\* (file.rs lines 113-122, 142-148); each of the three slicings panics when
\* it is out of range
string_at(file, table_index, name) ==
    IF section_header_nth(file, table_index).kind # "Some"
    THEN section_header_nth(file, table_index)
    ELSE IF ~section_data_in_range(file, file.sections[table_index + 1])
    THEN FilePanic(SliceMessage(file.sections[table_index + 1].offset, Len(file.source)))
    ELSE IF name > file.sections[table_index + 1].size THEN FilePanic(RangeStartMessage)
    ELSE LET data == section_data(file, file.sections[table_index + 1])
             cstr == from_bytes_until_nul(SubSeq(data, name + 1, Len(data)))
         IN  IF ~IsSome(cstr) THEN FileNone
             ELSE IF ~IsSome(to_str(Unwrap(cstr))) THEN FileNone
             ELSE FileSome(Unwrap(cstr))

\* ElfFile::section_name (file.rs lines 112-122)
section_name(file, header) == string_at(file, file.shstrndx, header.name)

\* ElfFile::symbol_name (file.rs lines 141-149)
symbol_name(file, symtab, symbol) == string_at(file, symtab.header.link, symbol.name)

\* SectionHeader, the fields that locate its data
SectionHeader(offset, size) == [offset |-> offset, size |-> size]

\* section headers whose data is the whole source, a part of it, empty at its
\* end, or not inside it
SectionChoices ==
    { SectionHeader(0, SourceLen), SectionHeader(1, 2), SectionHeader(SourceLen, 0),
      SectionHeader(2, SourceLen - 1), SectionHeader(SourceLen + 1, 0) }

SectionTables ==
    { <<>> } \cup { <<h>> : h \in SectionChoices }
    \cup { <<SectionHeader(0, SourceLen), h>> : h \in SectionChoices }

\* parsed files as section_name and symbol_name see them: the source bytes,
\* the section header table, its e_shnum headers, and e_shstrndx; a table
\* that only ends past the source has at least one header
StringFiles ==
    { file \in [source : [1..SourceLen -> StringBytes],
                sh_table : ShTables,
                sections : SectionTables,
                shstrndx : 0..2] :
        file.sh_table = "end" => file.sections # <<>> }

\* name offsets up to one past the end of the largest table
NameOffsets == 0..(SourceLen + 1)

TryParse(src) ==
    /\ file_ret' = FileCall("try_parse", src, try_parse(src))
    /\ UNCHANGED <<physVars, slabVars, fdVars, loaderVars>>

SectionName(file, header) ==
    /\ file_ret' = FileCall("section_name", [file |-> file, index |-> file.shstrndx,
                                             name |-> header.name],
                            section_name(file, header))
    /\ UNCHANGED <<physVars, slabVars, fdVars, loaderVars>>

SymbolName(file, symtab, symbol) ==
    /\ file_ret' = FileCall("symbol_name", [file |-> file, index |-> symtab.header.link,
                                            name |-> symbol.name],
                            symbol_name(file, symtab, symbol))
    /\ UNCHANGED <<physVars, slabVars, fdVars, loaderVars>>

InitElfFile == PhysIdle /\ SlabIdle /\ ElfIdle /\ FdIdle

\* nothing was called on the file yet
FreshFile == file_ret.op = "none"

NextElfFile ==
    \/ FreshFile /\ \E src \in ParseSources : TryParse(src)
    \/ FreshFile /\ \E file \in StringFiles, name \in NameOffsets :
                      SectionName(file, [name |-> name])
    \/ FreshFile /\ \E file \in StringFiles, link \in 0..2, name \in NameOffsets :
                      /\ file.shstrndx = 0
                      /\ SymbolName(file, [header |-> [link |-> link]], [name |-> name])

SpecElfFile == InitElfFile /\ [][NextElfFile]_vars

----------------------------------------------------------------------------
(* Properties of the ELF loader *)

\* bit `flag` is set in the flag word
FlagSet(flags, flag) == (flags \div flag) % 2 = 1

\* a LOAD header flagged both writable and executable
IsWritableExecutableLoad(hdr) ==
    hdr.typ = PT_LOAD /\ FlagSet(hdr.flags, WRITABLE) /\ FlagSet(hdr.flags, EXECUTABLE)

ImageAllocations ==
    LET all == image.executable_allocations \o image.readonly_allocations
               \o image.writable_allocations
    IN  { all[i] : i \in 1..Len(all) }

\* C5: load never returns Ok for a file with a LOAD header flagged both
\* writable and executable, no allocation of a returned image comes from such
\* a header, and when the loop reaches the permission check of such a segment
\* the call panics with the W+X message.
C5_NoWritableExecutableSegment ==
    /\ [](elf_result.kind = "Ok" =>
            /\ \A i \in 1..Len(elf_file.headers) : ~IsWritableExecutableLoad(elf_file.headers[i])
            /\ \A a \in ImageAllocations : ~IsWritableExecutableLoad(elf_file.headers[a.segment]))
    /\ [][(elf_pc = "permission" /\ IsWritableExecutableLoad(CurrentHeader))
            => elf_result' = LoadPanic(WritableExecutableMessage)]_vars

\* the second LOAD segment was read+write+execute: the first one is in the
\* image and the call panicked with the W+X message
C5_Witness ==
    /\ elf_result = LoadPanic(WritableExecutableMessage)
    /\ Len(image.executable_allocations) = 1
    /\ elf_file.headers[LoadHeaders[elf_idx]].flags = READABLE + WRITABLE + EXECUTABLE

----------------------------------------------------------------------------
(* Further properties of the physical memory manager *)

\* some region holds `count` consecutive Free frames that start at an
\* address that is a multiple of S
ExistsAlignedFreeRun(regs, S, count) ==
    \E r \in 1..Len(regs) : \E i \in 0..(RegionLen(regs[r]) - 1) :
        /\ (regs[r].base + i * Size4KiB) % S = 0
        /\ i + count <= RegionLen(regs[r])
        /\ \A j \in i..(i + count - 1) : FrameAt(regs[r], j) = Free

\* an allocation call of at least one frame (served by the manager in stage 2)
IsAllocOfSome(c) == IsAllocCall(c) /\ c.n >= 1

\* C11 as stated: an allocation of n >= 1 frames of size S returns none
\* exactly when no region holds a Free run of n * (S / 4KiB) frames whose
\* start address is a multiple of S, and it never panics.
C11_Original ==
    [][(stage = "Stage2" /\ IsAllocOfSome(ret')) =>
          /\ ~ret'.panic
          /\ (ret'.res = None) <=>
                ~ExistsAlignedFreeRun(regions, ret'.size,
                                      ret'.n * small_frames_per_frame(ret'.size))
      ]_vars

\* every region starts at an address that is a multiple of S
RegionBasesAligned(regs, S) == \A r \in 1..Len(regs) : regs[r].base % S = 0

\* C11 (what the code does): when every region base is a multiple of S the
\* call returns none exactly when no aligned Free run exists; in any case a
\* call that returns a range had such a run, and no call with n >= 1 panics.
C11_NoneIffNoRunInAlignedRegions ==
    [][(stage = "Stage2" /\ IsAllocOfSome(ret')) =>
          LET count == ret'.n * small_frames_per_frame(ret'.size)
              run == ExistsAlignedFreeRun(regions, ret'.size, count)
          IN  /\ ~ret'.panic
              /\ IsSome(ret'.res) => run
              /\ RegionBasesAligned(regions, ret'.size) => (IsSome(ret'.res) <=> run)
      ]_vars

\* a 2MiB allocation returned none in a region whose base is not 2MiB
\* aligned, and left frames of that region Allocated that were Free before
C11_Witness ==
    /\ stage = "Stage2" /\ IsAllocOfSome(ret) /\ ret.size = Size2MiB /\ ret.res = None
    /\ Len(regions) >= 1 /\ regions[1].base % Size2MiB # 0
    /\ FrameAt(regions[1], 0) = Allocated /\ FrameAt(regions[1], 1) = Allocated
    /\ first_free # Some(RegionFrameIndex(0, 0))

\* the 4KiB constituents of the S frame at addr, by position
Constituent(addr, i) == addr + i * Size4KiB

\* the position of the first constituent that is not Allocated, or the number
\* of constituents when all are
RECURSIVE FirstNotAllocated(_, _, _, _)
FirstNotAllocated(regs, addr, i, count) ==
    IF i >= count THEN count
    ELSE IF UnitState(regs, Constituent(addr, i)) # Allocated THEN i
    ELSE FirstNotAllocated(regs, addr, i + 1, count)

\* the frames whose state differs between regs1 and regs2 are among the first
\* k constituents of the frame at addr
OnlyChangedBelow(regs1, regs2, addr, k) ==
    \/ regs2 = regs1
    \/ /\ Len(regs2) = Len(regs1)
       /\ \A r \in 1..Len(regs1) :
             \/ regs2[r] = regs1[r]
             \/ /\ regs2[r].base = regs1[r].base
                /\ RegionLen(regs2[r]) = RegionLen(regs1[r])
                /\ \A i \in 0..(RegionLen(regs1[r]) - 1) :
                      FrameAt(regs2[r], i) # FrameAt(regs1[r], i) =>
                         \E j \in 0..(k - 1) :
                            regs1[r].base + i * Size4KiB = Constituent(addr, j)

IsLargeDealloc(c) == c.op = "deallocate_frame" /\ c.size \in {Size2MiB, Size1GiB}

\* C12: the manager's deallocate_frame of a 2MiB or 1GiB frame frees the 4KiB constituents in
\* ascending address order up to the first one that is not Allocated; when
\* there is such a constituent the call returns None, the constituents before
\* it are left Free (nothing is rolled back), and it and every unit after it
\* keep the state they had; when there is none the call returns the frame.
C12_PrefixFreedNoRollback ==
    [][(stage = "Stage2" /\ IsLargeDealloc(ret')) =>
          LET addr == Unwrap(ret'.arg)
              count == small_frames_per_frame(ret'.size)
              k == FirstNotAllocated(regions, addr, 0, count)
          IN  /\ ~ret'.panic
              /\ ret'.res = (IF k < count THEN None ELSE Some(addr))
              /\ \A i \in 0..(k - 1) : UnitState(regions', Constituent(addr, i)) = Free
              /\ OnlyChangedBelow(regions, regions', addr, k)
      ]_vars

\* a 1GiB deallocate_frame that returned None: its third 4KiB constituent is
\* Free, the two before it are Free, and the one after it is still Allocated
C12_Witness ==
    /\ stage = "Stage2"
    /\ IsLargeDealloc(ret) /\ ret.size = Size1GiB /\ ret.res = None
    /\ ret.arg = Some(0)
    /\ \A i \in 0..2 : UnitState(regions, Constituent(0, i)) = Free
    /\ UnitState(regions, Constituent(0, 3)) = Allocated
    /\ first_free = Some(RegionFrameIndex(0, 0))

IsDeallocCall(c) == c.op \in {"deallocate_frame", "deallocate_frames"}

\* the regions `regs2` have the bases and lengths of `regs1`
SameShape(regs1, regs2) ==
    /\ Len(regs1) = Len(regs2)
    /\ \A r \in 1..Len(regs1) :
          regs1[r].base = regs2[r].base /\ RegionLen(regs1[r]) = RegionLen(regs2[r])

\* C13: once the manager exists, no call changes an Unusable frame or makes a
\* frame Unusable: a frame's state changes only from Free to Allocated, in an
\* allocation call, or from Allocated to Free, in a deallocation call; and
\* deallocate_frame on a frame with an Unusable 4KiB unit returns None.
C13_UnusableIsPermanent ==
    [][stage = "Stage2" =>
          /\ \/ regions' = regions
             \/ /\ SameShape(regions, regions')
                /\ \A r \in 1..Len(regions) : \A i \in 0..(RegionLen(regions[r]) - 1) :
                      LET old == FrameAt(regions[r], i)
                          new == FrameAt(regions'[r], i)
                      IN  old # new =>
                            \/ old = Free /\ new = Allocated /\ IsAllocCall(ret')
                            \/ old = Allocated /\ new = Free /\ IsDeallocCall(ret')
          /\ (ret'.op = "deallocate_frame" /\ IsSome(ret'.res)) =>
                \A i \in 0..(small_frames_per_frame(ret'.size) - 1) :
                   UnitState(regions, Constituent(Unwrap(ret'.arg), i)) # Unusable
      ]_vars

\* deallocate_frame::<Size4KiB> was called on an Unusable frame that lies
\* between a Free and an Allocated frame
C13_Witness ==
    /\ stage = "Stage2"
    /\ ret.op = "deallocate_frame" /\ ret.size = Size4KiB /\ ret.res = None
    /\ ret.arg = Some(Size4KiB)
    /\ UnitState(regions, Size4KiB) = Unusable
    /\ UnitState(regions, 0) = Allocated
    /\ UnitState(regions, 2 * Size4KiB) = Free

----------------------------------------------------------------------------
(* Properties of the stage-1 bump allocator *)

\* the firmware entries tagged usable that hold the address
UsableEntriesHolding(ents, addr) ==
    {i \in 1..Len(ents) :
        /\ ents[i].entry_type = USABLE
        /\ ents[i].base <= addr /\ addr < ents[i].base + ents[i].length}

IsStage1Alloc(c) == c.op = "allocate_frame" /\ c.size = Size4KiB /\ IsSome(c.res)

\* C14: a stage-1 allocate_frame that returns a frame returns a 4KiB-aligned
\* address that lies inside a usable firmware entry, is above every frame
\* returned before (so no frame is returned twice), and lies in the same or a
\* later entry than every frame returned before.
C14_Stage1FramesAscendInsideUsable ==
    [][(stage = "Stage1" /\ IsStage1Alloc(ret')) =>
          LET f == Unwrap(ret'.res) IN
          /\ f % Size4KiB = 0
          /\ UsableEntriesHolding(entries, f) # {}
          /\ \A g \in stage1_held :
                /\ g < f
                /\ \A i \in UsableEntriesHolding(entries, g) :
                      \A j \in UsableEntriesHolding(entries, f) : i <= j
      ]_vars

\* stage 1 has moved on from the first usable entry to the frame at the start
\* of a later one
C14_Witness ==
    /\ stage = "Stage1" /\ IsStage1Alloc(ret)
    /\ 0 \in stage1_held
    /\ Len(entries) = 3 /\ ret.res = Some(entries[3].base)
    /\ entries[3].base > 0

\* the 4KiB frames of the usable firmware entries, [base, base + length) each
FramesOfUsableEntries(ents) ==
    {a \in UnitAddrs : UsableEntriesHolding(ents, a) # {}}

\* the 4KiB frames between an entry's base and the address equal to its length
FramesBelowLength(ents) ==
    {a \in UnitAddrs : \E i \in UsableEntriesHolding(ents, a) : a < ents[i].length}

IsStage1Call(c) == c.op = "allocate_frame" /\ c.size = Size4KiB

\* C15 as stated: in stage 1 allocate_frame succeeds exactly while fewer
\* frames have been handed out than the usable entries hold, so that every
\* frame of every usable entry is handed out before the first None.
C15_Original ==
    [][(stage = "Stage1" /\ IsStage1Call(ret')) =>
          /\ IsSome(ret'.res) <=> next_frame < Cardinality(FramesOfUsableEntries(entries))
          /\ ret'.res = None => stage1_held = FramesOfUsableEntries(entries)
      ]_vars

\* C15 (what the code does): in stage 1 allocate_frame hands out, of each
\* usable entry, the frames from its base up to the address equal to its
\* length; the call succeeds exactly while fewer frames than those have been
\* handed out, and at the first None exactly those frames have been handed out.
C15_HandsOutFramesBelowLength ==
    [][(stage = "Stage1" /\ IsStage1Call(ret')) =>
          /\ IsSome(ret'.res) <=> next_frame < Cardinality(FramesBelowLength(entries))
          /\ ret'.res = None => stage1_held = FramesBelowLength(entries)
      ]_vars

\* stage 1 reported exhaustion while a frame of a usable entry was never
\* handed out
C15_Witness ==
    /\ stage = "Stage1" /\ IsStage1Call(ret) /\ ret.res = None
    /\ stage1_held = FramesBelowLength(entries)
    /\ FramesOfUsableEntries(entries) \ stage1_held # {}

\* a call that stage 1 does not serve
IsUnsupportedInStage1(c) ==
    \/ c.op \in {"allocate_frames", "deallocate_frame", "deallocate_frames"}
    \/ c.op = "allocate_frame" /\ c.size # Size4KiB

\* C16: in stage 1 a deallocate_frame, deallocate_frames, allocate_frames or
\* allocate_frame of a page size other than 4KiB panics: it returns no value
\* and leaves the firmware entries, the bump position and the stage as they
\* were; an allocate_frame of 4KiB frames does not panic.
C16_Stage1ServesOnly4KiBAllocateFrame ==
    [][(stage = "Stage1" /\ ret'.op # "init_stage2") =>
          IF IsUnsupportedInStage1(ret')
          THEN /\ ret'.panic /\ ret'.res = None
               /\ UNCHANGED <<stage, entries, next_frame, stage1_held, regions, first_free>>
          ELSE /\ IsStage1Call(ret') /\ ~ret'.panic
               /\ stage' = "Stage1"
      ]_vars

\* after two frames were handed out, a stage-1 deallocate_frames call panicked
\* and the bump position is still two
C16_Witness ==
    /\ stage = "Stage1" /\ next_frame = 2
    /\ ret.op = "deallocate_frames" /\ ret.panic /\ ret.res = None
    /\ Cardinality(stage1_held) = 2

----------------------------------------------------------------------------
(* Properties of the PhysicalMemory facade *)

\* the cores that are inside a method, between taking the guard and dropping it
InsideMethod == {c \in Cores : cores[c].pc \in {"locked", "found", "marked", "panicked"}}

\* C17: facade calls of several cores run one at a time under the mutex: at
\* most one core is inside a method and it is the holder of the mutex; what
\* it read of the manager is still what the manager holds when it writes; no
\* 4KiB unit is covered by two returned ranges that are still held, and a
\* covered unit is Allocated; and whenever no core is inside a method,
\* first_free is the smallest Free position.
C17_FacadeCallsAreAtomic ==
    /\ Cardinality(InsideMethod) <= 1
    /\ \A c \in InsideMethod : lock = c
    /\ InsideMethod = {} => lock = Unlocked
    /\ \A c \in Cores :
          /\ cores[c].pc = "found" =>
                Unwrap(cores[c].out) \in
                    manager_call(regions, first_free, Unwrap(cores[c].call))
          /\ cores[c].pc = "marked" => regions = Unwrap(cores[c].out).regions
    /\ C2_ReturnedUnitsAllocatedAndDisjoint
    /\ InsideMethod = {} => C1_FirstFreeIsSmallestFree

\* one core has marked the frames of a 2MiB allocation and not yet written
\* first_free, while another core that holds a 4KiB frame spins on the mutex
C17_Witness ==
    /\ \E c \in Cores : \E d \in Cores \ {c} :
          /\ cores[c].pc = "marked"
          /\ Unwrap(cores[c].call).op = "allocate_frame"
          /\ Unwrap(cores[c].call).size = Size2MiB
          /\ IsSome(Unwrap(cores[c].out).res)
          /\ first_free # Unwrap(cores[c].out).first_free
          /\ cores[d].pc = "spinning"
    /\ owned[0] = 1

\* core c leaves a facade deallocation method in this step
DeallocReturns(c) ==
    /\ cores[c].pc = "marked" /\ cores'[c].pc # "marked"
    /\ IsDeallocCall(Unwrap(cores[c].call))

\* C18 as stated: a facade deallocate_frame or deallocate_frames that meets a
\* frame that is not Allocated (already free or never allocated) panics.
C18_Original ==
    [][\A c \in Cores :
          (DeallocReturns(c) /\ Unwrap(cores[c].out).res = None) => ret'.panic
      ]_vars

\* C18 (what the code does): a facade deallocate_frame or deallocate_frames
\* never panics in stage 2 and returns nothing, whatever the state of the
\* frames; when it meets a 4KiB unit that is not Allocated it stops there
\* silently: the units of the range before that one are freed and every other
\* unit keeps its state.
C18_DeallocationStopsSilently ==
    [][\A c \in Cores :
          /\ DeallocReturns(c) =>
                /\ ~ret'.panic /\ ret'.res = None /\ cores'[c] = IdleCore
                /\ lock' = Unlocked
          /\ (cores[c].pc = "found" /\ cores'[c].pc = "marked"
                /\ IsDeallocCall(Unwrap(cores[c].call))) =>
                LET call == Unwrap(cores[c].call)
                    addr == IF call.op = "deallocate_frame" THEN Unwrap(call.arg)
                            ELSE Unwrap(call.arg).start
                    count == call.n * small_frames_per_frame(call.size)
                    k == FirstNotAllocated(regions, addr, 0, count)
                IN  /\ \A i \in 0..(k - 1) : UnitState(regions', Constituent(addr, i)) = Free
                    /\ OnlyChangedBelow(regions, regions', addr, k)
      ]_vars

\* a facade deallocate_frames over a frame that was freed by the call and a
\* frame that was already Free has returned without a panic
C18_Witness ==
    /\ lock = Unlocked /\ stage = "Stage2"
    /\ \A c \in Cores : cores[c].pc \in {"idle", "spinning"}
    /\ ret.op = "deallocate_frames" /\ ret.size = Size4KiB /\ ~ret.panic
    /\ ret.arg = Some([start |-> 2 * Size4KiB, end |-> 3 * Size4KiB])
    /\ UnitState(regions, 2 * Size4KiB) = Free
    /\ UnitState(regions, 3 * Size4KiB) = Free
    /\ owned[3 * Size4KiB] = 0

----------------------------------------------------------------------------
(* Properties of the readers of the slab *)

\* the segment at chain position k, Null when the chain is shorter
RECURSIVE ChainSeg(_)
ChainSeg(k) ==
    IF k = 0 THEN HeadSeg
    ELSE LET prev == ChainSeg(k - 1) IN
         IF prev = Null THEN Null ELSE seg_next[prev]

\* thread t is inside try_get in this step
InTryGet(t) == th[t].pc = "try_get" \/ th'[t].pc = "try_get"

\* C20: no step of try_get allocates, links or frees a segment, so the chain
\* is the one the other threads made; when try_get(index) returns, it
\* returns the slot index % N of the segment at chain position index / N if
\* that position is linked, and None if it is not.
C20_TryGetOnlyReads ==
    [][\A t \in Threads :
          (InTryGet(t) /\ th'[t] # th[t]) =>
             /\ UNCHANGED <<seg_next, allocs, frees, links>>
             /\ (th[t].pc = "try_get" /\ th'[t].pc = "idle") =>
                   LET index == IndexOf(th[t].index)
                       seg == ChainSeg(index.segment)
                   IN  /\ slab_ret'.op = "try_get" /\ slab_ret'.index = th[t].index
                       /\ slab_ret'.result =
                             (IF seg = Null THEN None ELSE Some(Slot(seg, index.offset)))
      ]_vars

\* try_get returned the first slot of the second heap segment of the chain
\* while another thread is inside a try_get of its own
C20_Witness ==
    /\ slab_state = "alive"
    /\ slab_ret.op = "try_get" /\ slab_ret.index = 2 * SegmentSize
    /\ slab_ret.result = Some(Slot(ChainSeg(2), 0))
    /\ ChainSeg(2) # Null
    /\ allocs = 2
    /\ th[Writer].pc = "idle"
    /\ \E t \in Threads : th[t].pc = "try_get" /\ th[t].index < SegmentSize

----------------------------------------------------------------------------
(* Properties of the publication of a segment *)

\* C19 as stated: a thread that got a segment through a next pointer that is
\* not null reads default-initialized slots only.
C19_Original ==
    \A t \in Threads : pub[t].pc = "done" => pub[t].seen = Some("default")

\* C19 (what the code does): the compare_exchange that publishes a segment is
\* no release store, so only the thread that wrote the segment is sure to
\* read default-initialized slots; another thread reads what has reached
\* memory, and a slot it finds uninitialized is one whose write the
\* publishing thread still holds back or held back when the slot was read.
C19_OnlyThePublisherIsSure ==
    /\ ~is_release(cas_success_ordering)
    /\ \A t \in Threads :
          pub[t].pc = "done" =>
             /\ pub[t].seg = head_next /\ head_next # Null
             /\ pub[t].seg = t => pub[t].seen = Some("default")

\* a thread got the pointer to another thread's segment with an acquire load
\* and read a slot whose initial write has still not reached memory
C19_Witness ==
    \E t \in Threads :
        /\ pub[t].pc = "done" /\ pub[t].seg # t /\ pub[t].seg # Null
        /\ pub[t].seen = Some("uninit")
        /\ store_buf[pub[t].seg] # {}
        /\ head_next = pub[t].seg


----------------------------------------------------------------------------
(* Properties of the slab used from one thread *)

Max(a, b) == IF a > b THEN a ELSE b

\* the value held by a slot of the chain
SlotValue(slot) == sq_chain[slot.seg + 1][slot.offset]

\* every slot of every linked segment
AllSlots == { Slot(k, i) : k \in 0..(Len(sq_chain) - 1), i \in 0..(sq_n - 1) }

\* the step is a call of get
IsGetStep == sq_ret'.op = "get" /\ (sq_ret' # sq_ret \/ Len(sq_chain') # Len(sq_chain))

\* C21: called from one thread, get(index) leaves the chain with exactly
\* max(previous segment count, index / N + 1) segments and changes no
\* element; afterwards try_get(j) is Some for every j < (index / N + 1) * N
\* and the slot returned is the one try_get(index) returns.  Only get changes
\* the number of segments, and every slot that was never written through a
\* reference from get holds V::default().
C21_GetLinksUpToItsSegment ==
    /\ [][IsGetStep =>
            /\ Len(sq_chain') = Max(Len(sq_chain), sq_ret'.index \div sq_n + 1)
            /\ SubSeq(sq_chain', 1, Len(sq_chain)) = sq_chain
            /\ \A j \in 0..((sq_ret'.index \div sq_n + 1) * sq_n - 1) :
                 IsSome(try_get(sq_chain', j, sq_n))
            /\ sq_ret'.result = try_get(sq_chain', sq_ret'.index, sq_n)]_vars
    /\ [][Len(sq_chain') # Len(sq_chain) => IsGetStep]_vars
    /\ [](\A slot \in AllSlots \ sq_written : SlotValue(slot) = Default)

\* get reached the third segment of a chain in which only slot 0 of the head
\* was written: the five other slots hold the default value
C21_Witness ==
    /\ sq_pc.at = "free"
    /\ sq_ret.op = "get"
    /\ sq_ret.index \div sq_n = 2
    /\ Len(sq_chain) = 3
    /\ sq_written = {Slot(0, 0)}
    /\ \A slot \in AllSlots \ sq_written : SlotValue(slot) = Default

\* the numbers, counted from 1, of the yielded items whose slot still holds
\* the default value
EmptyItems == { i \in 1..Len(sq_items) : SlotValue(sq_items[i]) = Default }

\* the empty items are the last ones yielded
EmptyAtTail == EmptyItems = (Len(sq_items) - Cardinality(EmptyItems) + 1)..Len(sq_items)

IsIterNextStep ==
    sq_ret'.op = "iter_next" /\ (sq_ret' # sq_ret \/ sq_items' # sq_items)

\* C23: the i-th item of an iterator is the slot try_get(i) returns, so the
\* items come in index order from slot 0 on for every call of iter();
\* Iter::next returns None exactly when the items yielded so far are all
\* s * N slots of the s segments linked at that moment, and it links nothing.
C23_IterYieldsLinkedSlotsInOrder ==
    /\ [](\A i \in 1..Len(sq_items) : Some(sq_items[i]) = try_get(sq_chain, i - 1, sq_n))
    /\ [][IsIterNextStep =>
            /\ (sq_ret'.result = None) <=> (Len(sq_items) = Len(sq_chain) * sq_n)
            /\ sq_chain' = sq_chain]_vars
    /\ [][(sq_ret'.op = "iter" /\ sq_ret' # sq_ret) =>
            sq_iter' = Some(iter_new) /\ sq_chain' = sq_chain]_vars

\* an iterator over three segments returned None after all their slots
C23_Witness ==
    /\ sq_pc.at = "free"
    /\ sq_ret.op = "iter_next"
    /\ sq_ret.result = None
    /\ Len(sq_chain) = 3
    /\ Len(sq_items) = 3 * sq_n

----------------------------------------------------------------------------
(* Teardown of the slab *)

\* C24 as stated: the drop of a segment never runs inside the drop of its
\* predecessor, so at most one Segment::drop is in progress.
C24_Original == Len(drop_stack) <= 1

\* C24: Segment::drop drops the Box of the next segment inside itself: every
\* call in progress but the innermost waits for the drop of the segment that
\* was linked after its own, and when the innermost call finds a null pointer
\* one call per segment of the chain is in progress.
C24_DropNestsOncePerSegment ==
    /\ \A i \in 1..(Len(drop_stack) - 1) :
         /\ drop_stack[i].phase = "child"
         /\ <<drop_stack[i].seg, drop_stack[i + 1].seg>> \in links
    /\ (/\ drop_stack # <<>>
        /\ drop_stack[Len(drop_stack)].phase = "swap"
        /\ seg_next[drop_stack[Len(drop_stack)].seg] = Null)
       => Len(drop_stack) = Cardinality(links) + 1

\* the head and two heap segments: three calls of Segment::drop are nested
C24_Witness ==
    /\ slab_state = "dropping"
    /\ Len(drop_stack) = 3
    /\ Cardinality(links) = 2
    /\ drop_stack[3].phase = "swap"


----------------------------------------------------------------------------
(* Properties of ElfFile *)

\* the checks of try_parse in the order in which the statement lists them:
\* the error of each check and whether the source passes it
ParseChecks(src) ==
    << <<"HeaderParseError", src.aligned /\ src.typ \in 0..4>>,
       <<"InvalidMagic", src.magic = <<127, 69, 76, 70>> >>,
       <<"UnsupportedEndian", src.data = ENDIAN>>,
       <<"InvalidPhEntSize", src.phentsize = 56>>,
       <<"InvalidShEntSize", src.shentsize = 64>>,
       <<"UnsupportedElfVersion", src.ident_version = 1 /\ src.version = 1>>,
       <<"UnsupportedOsAbi", src.os_abi = 0>> >>

FailingChecks(src) == { i \in 1..Len(ParseChecks(src)) : ~ParseChecks(src)[i][2] }

\* try_parse was called on a source that holds a whole header
ParsedWholeHeader == file_ret.op = "try_parse" /\ file_ret.arg.len >= HeaderSize

\* the checks of try_parse as stated, the header parse failing as well when
\* the source is too short to hold a header
StatedFailingChecks(src) ==
    FailingChecks(src) \cup (IF src.len < HeaderSize THEN {1} ELSE {})

\* C25 as stated: on every source try_parse returns Ok exactly when every
\* check passes, and otherwise the error of the first failing check.
C25_Original ==
    file_ret.op = "try_parse" =>
        IF StatedFailingChecks(file_ret.arg) = {}
        THEN file_ret.result.kind = "Ok"
        ELSE /\ file_ret.result.kind = "Err"
             /\ \E i \in StatedFailingChecks(file_ret.arg) :
                  /\ \A j \in StatedFailingChecks(file_ret.arg) : i <= j
                  /\ file_ret.result.what = ParseChecks(file_ret.arg)[i][1]

\* C25, what try_parse does: on a source of at least 64 bytes it returns Ok
\* exactly when every check passes, and otherwise the error of the first
\* failing check in the order header parse, magic, endianness, phentsize =
\* 56, shentsize = 64, both versions = 1, OS/ABI = 0; on a shorter source it
\* returns neither Ok nor an error.
C25_FirstFailingCheckIsReported ==
    /\ (file_ret.op = "try_parse" /\ ~ParsedWholeHeader) =>
          file_ret.result.kind \notin {"Ok", "Err"}
    /\ ParsedWholeHeader =>
        IF FailingChecks(file_ret.arg) = {}
        THEN file_ret.result.kind = "Ok"
        ELSE /\ file_ret.result.kind = "Err"
             /\ \E i \in FailingChecks(file_ret.arg) :
                  /\ \A j \in FailingChecks(file_ret.arg) : i <= j
                  /\ file_ret.result.what = ParseChecks(file_ret.arg)[i][1]

\* a header with a wrong magic, a wrong program header entry size and a wrong
\* OS/ABI is reported as InvalidMagic
C25_Witness ==
    /\ ParsedWholeHeader
    /\ FailingChecks(file_ret.arg) = {2, 4, 7}
    /\ file_ret.result.kind = "Err"
    /\ file_ret.result.what = "InvalidMagic"

\* C26 as stated: on a source shorter than 64 bytes try_parse returns the
\* error HeaderParseError.
C26_Original ==
    (file_ret.op = "try_parse" /\ file_ret.arg.len < HeaderSize) =>
        /\ file_ret.result.kind = "Err"
        /\ file_ret.result.what = "HeaderParseError"

\* C26: try_parse slices the first 64 bytes off the source before anything is
\* validated: on a shorter source, the empty one included, the slicing panics
\* and no error is returned.
C26_ShortSourcePanics ==
    (file_ret.op = "try_parse" /\ file_ret.arg.len < HeaderSize) =>
        /\ file_ret.result.kind = "Panic"
        /\ file_ret.result.what = RangeMessage

\* try_parse panicked on a source of 63 bytes whose header fields are all good
C26_Witness ==
    /\ file_ret.op = "try_parse"
    /\ file_ret.arg.len = HeaderSize - 1
    /\ FailingChecks(file_ret.arg) = {}
    /\ file_ret.result.kind = "Panic"

\* section_name or symbol_name was called
NameLookup == file_ret.op \in {"section_name", "symbol_name"}

\* the string table of the lookup exists
TablePresent == file_ret.arg.index < Len(file_ret.arg.file.sections)

TableHeader == file_ret.arg.file.sections[file_ret.arg.index + 1]

\* the bytes of the string table from the name offset on
NameBytes ==
    SubSeq(file_ret.arg.file.source, TableHeader.offset + file_ret.arg.name + 1,
           TableHeader.offset + TableHeader.size)

\* the lookup slices outside the source or outside the string table, or
\* unwraps the parse error of a misaligned section header
LookupOutOfRange ==
    \/ file_ret.arg.file.sh_table \in {"start", "end"}
    \/ file_ret.arg.file.sh_table = "unaligned" /\ file_ret.arg.file.sections # <<>>
    \/ /\ file_ret.arg.file.sh_table = "parsed"
       /\ TablePresent
       /\ \/ TableHeader.offset + TableHeader.size > Len(file_ret.arg.file.source)
          \/ file_ret.arg.name > TableHeader.size

\* str is the C string at the start of bytes: a NUL follows it and it holds
\* none
IsCStringOf(str, bytes) ==
    /\ Len(str) < Len(bytes)
    /\ bytes[Len(str) + 1] = 0
    /\ \A i \in 1..Len(str) : bytes[i] = str[i] /\ str[i] # 0

\* C27 as stated: section_name and symbol_name never panic.
C27_Original == NameLookup => file_ret.result.kind # "Panic"

\* C27: section_name and symbol_name panic exactly when the section header
\* table or the data of the string table is not inside the source, when the
\* table has a header and its headers are misaligned, or when the name
\* offset is larger than the size of the string table.  Otherwise they
\* return none when the table is missing, when no NUL follows the name offset
\* or when the bytes before the NUL are not UTF-8, and else the string
\* between the offset and the first NUL.
C27_NameLookupPanicsOutOfRange ==
    NameLookup =>
        IF LookupOutOfRange THEN file_ret.result.kind = "Panic"
        ELSE IF ~TablePresent THEN file_ret.result.kind = "None"
        ELSE IF \A i \in 1..Len(NameBytes) : NameBytes[i] # 0
        THEN file_ret.result.kind = "None"
        ELSE IF file_ret.result.kind = "Some"
        THEN /\ IsCStringOf(file_ret.result.what, NameBytes)
             /\ \A i \in 1..Len(file_ret.result.what) : file_ret.result.what[i] < 128
        ELSE /\ file_ret.result.kind = "None"
             /\ \E i \in 1..Len(NameBytes) :
                  /\ NameBytes[i] >= 128
                  /\ \A j \in 1..i : NameBytes[j] # 0

\* section_name was asked for a name one past the end of a string table that
\* lies inside the source, and panicked
C27_Witness ==
    /\ file_ret.op = "section_name"
    /\ file_ret.arg.file.sh_table = "parsed"
    /\ TablePresent
    /\ TableHeader = SectionHeader(1, 2)
    /\ file_ret.arg.name = 3
    /\ file_ret.result.kind = "Panic"


----------------------------------------------------------------------------
(* Further properties of the ELF loader *)

\* the header an allocation was made for
HeaderOf(a) == elf_file.headers[a.segment]

\* the program headers, as positions in the header table, that an allocation
\* collection holds, in the order of the collection
SegmentsOf(allocations) == [i \in 1..Len(allocations) |-> allocations[i].segment]

\* C28: when load returns Ok, the executable allocations are the LOAD headers
\* flagged executable, the writable ones the LOAD headers flagged writable
\* and not executable, the read-only ones the remaining LOAD headers, each in
\* program-header order and with the access of its collection; so every LOAD
\* header has exactly one allocation and the three lengths sum to the number
\* of LOAD headers.
C28_OneAllocationPerLoadHeader ==
    elf_result.kind = "Ok" =>
        /\ SegmentsOf(image.executable_allocations) =
             SelectSeq(LoadHeaders, LAMBDA i : FlagSet(elf_file.headers[i].flags, EXECUTABLE))
        /\ SegmentsOf(image.writable_allocations) =
             SelectSeq(LoadHeaders, LAMBDA i : /\ ~FlagSet(elf_file.headers[i].flags, EXECUTABLE)
                                               /\ FlagSet(elf_file.headers[i].flags, WRITABLE))
        /\ SegmentsOf(image.readonly_allocations) =
             SelectSeq(LoadHeaders, LAMBDA i : /\ ~FlagSet(elf_file.headers[i].flags, EXECUTABLE)
                                               /\ ~FlagSet(elf_file.headers[i].flags, WRITABLE))
        /\ Len(image.executable_allocations) + Len(image.writable_allocations)
             + Len(image.readonly_allocations) = Len(LoadHeaders)
        /\ \A i \in 1..Len(image.executable_allocations) :
             image.executable_allocations[i].access = "executable"
        /\ \A i \in 1..Len(image.writable_allocations) :
             image.writable_allocations[i].access = "writable"
        /\ \A i \in 1..Len(image.readonly_allocations) :
             image.readonly_allocations[i].access = "readonly"

\* a file of two executable LOAD segments was loaded: both are in the
\* executable collection, in file order
C28_Witness ==
    /\ elf_result.kind = "Ok"
    /\ Len(LoadHeaders) = 2
    /\ SegmentsOf(image.executable_allocations) = <<1, 2>>
    /\ image.writable_allocations = <<>>
    /\ image.readonly_allocations = <<>>

\* the allocation holds memsz bytes: the file content of its segment and
\* then zeroes
FilledFrom(a, hdr) ==
    /\ DOMAIN a.bytes = 1..hdr.memsz
    /\ \A i \in 1..hdr.memsz :
         a.bytes[i] = IF i <= hdr.filesz THEN SourceContent[hdr.offset + i] ELSE 0

\* every allocation the loader has filled: those of the image and the one in
\* hand after its fill
FilledAllocations ==
    ImageAllocations
    \cup (IF IsSome(image.tls_allocation) THEN {Unwrap(image.tls_allocation)} ELSE {})
    \cup (IF elf_pc \in {"permission", "tls_readonly"} THEN {Unwrap(elf_alloc)} ELSE {})

\* C29: every LOAD and TLS allocation that load has filled has memsz bytes,
\* the first filesz of them equal to source[offset .. offset + filesz] and the
\* other memsz - filesz zero, whatever the allocation held when it was made.
C29_FileContentThenZeroes ==
    \A a \in FilledAllocations : FilledFrom(a, HeaderOf(a))

\* a LOAD segment of four bytes, two of them from offset 1 of the file, is in
\* the returned image
C29_Witness ==
    /\ elf_result.kind = "Ok"
    /\ Len(image.readonly_allocations) = 1
    /\ HeaderOf(image.readonly_allocations[1]) = ProgramHeader(PT_LOAD, READABLE, 1, 1024, 2, 4, 8)
    /\ image.readonly_allocations[1].bytes = <<18, 19, 0, 0>>
    /\ mem_log[1].op = "allocate"

\* the MemoryApi calls made for the program header at position i
CallsFor(i) == SelectSeq(mem_log, LAMBDA c : c.segment = i)

\* C30: when load_tls finds more than one TLS header, load returns the error
\* TooManyTlsHeaders without a panic and without a call to the memory API;
\* when it finds none, load returns Ok with no TLS allocation.  A returned
\* image has a TLS allocation exactly when the file has one TLS header; that
\* allocation was requested at Location::Anywhere and made read-only.
C30_AtMostOneTlsHeader ==
    /\ [][(elf_pc = "tls" /\ Len(TlsHeaders) > 1) =>
            /\ elf_result' = LoadErr("TooManyTlsHeaders")
            /\ mem_log' = mem_log
            /\ image' = image]_vars
    /\ [][(elf_pc = "tls" /\ Len(TlsHeaders) = 0) =>
            /\ elf_result' = LoadOk
            /\ image' = image
            /\ image.tls_allocation = None]_vars
    /\ [](elf_result.kind = "Ok" =>
            /\ Len(TlsHeaders) <= 1
            /\ IsSome(image.tls_allocation) <=> Len(TlsHeaders) = 1
            /\ Len(TlsHeaders) = 1 =>
                 /\ Unwrap(image.tls_allocation).segment = TlsHeaders[1]
                 /\ Unwrap(image.tls_allocation).access = "readonly"
                 /\ Len(CallsFor(TlsHeaders[1])) = 2
                 /\ CallsFor(TlsHeaders[1])[1].op = "allocate"
                 /\ CallsFor(TlsHeaders[1])[1].location = None
                 /\ CallsFor(TlsHeaders[1])[2].op = "make_readonly")

\* a file with two TLS headers: load returned TooManyTlsHeaders
C30_Witness ==
    /\ elf_result = LoadErr("TooManyTlsHeaders")
    /\ Len(TlsHeaders) = 2
    /\ image.tls_allocation = None

----------------------------------------------------------------------------
(* What load leaves behind when it stops *)

\* the program headers whose segment load has allocated and filled: those of
\* the allocations it filled and those it asked a permission transition for
LoadedSegments ==
    { a.segment : a \in FilledAllocations }
    \cup { mem_log[i].segment : i \in { j \in 1..Len(mem_log) : mem_log[j].op # "allocate" } }

\* C31 as stated: when load returns an error, no segment of the binary has
\* been allocated and filled during the call.
C31_Original ==
    elf_result.kind = "Err" => LoadedSegments = {}

\* C31: when load returns an error, the segments it allocated and filled
\* before are exactly the LOAD headers in front of the one the loop stopped
\* at (all of them, when the error comes from load_tls), and they sit in the
\* image that the call drops; the segment the error is about was itself
\* allocated and filled when the error comes from a permission transition.
C31_ErrorLeavesEarlierSegmentsLoaded ==
    elf_result.kind = "Err" =>
        /\ { a.segment : a \in ImageAllocations } = { LoadHeaders[i] : i \in 1..(elf_idx - 1) }
        /\ image.tls_allocation = None
        /\ \A i \in 1..(elf_idx - 1) :
             /\ CallsFor(LoadHeaders[i]) # <<>>
             /\ CallsFor(LoadHeaders[i])[1].op = "allocate"
        /\ LoadedSegments \subseteq
             { LoadHeaders[i] : i \in 1..Min(elf_idx, Len(LoadHeaders)) }
             \cup { TlsHeaders[i] : i \in 1..Len(TlsHeaders) }

\* the second LOAD header has an invalid alignment: load returned
\* InvalidSizeOrAlign after the first segment was allocated, filled and made
\* executable
C31_Witness ==
    /\ elf_result = LoadErr("InvalidSizeOrAlign")
    /\ elf_idx = 2
    /\ Len(image.executable_allocations) = 1
    /\ image.executable_allocations[1].bytes = <<17, 0>>
    /\ Len(mem_log) = 2
    /\ mem_log[1].op = "allocate"
    /\ mem_log[2].op = "make_executable"

\* C32: load on a file whose type is not Exec stops at once with the panic
\* of the type assertion: it makes no call to the memory API, builds no
\* allocation and never returns Ok or an error.
C32_NonExecStopsBeforeAnyAllocation ==
    /\ [](elf_file.typ # ElfTypeExec =>
            /\ elf_result.kind \notin {"Ok", "Err"}
            /\ mem_log = <<>>
            /\ image = EmptyImage
            /\ elf_alloc = None
            /\ elf_pc \in {"start", "done"}
            /\ elf_pc = "done" => elf_result = LoadPanic(ExecOnlyMessage))
    /\ [][(elf_pc = "start" /\ elf_file.typ # ElfTypeExec) =>
            /\ elf_result' = LoadPanic(ExecOnlyMessage)
            /\ elf_pc' = "done"]_vars

\* load was called on a Dyn file with two well-formed LOAD headers: it
\* stopped with the type panic and nothing was allocated
C32_Witness ==
    /\ elf_file.typ = ElfTypeDyn
    /\ Len(LoadHeaders) = 2
    /\ \A i \in 1..2 : elf_file.headers[i] = GoodHeader(PT_LOAD, READABLE)
    /\ elf_result = LoadPanic(ExecOnlyMessage)
    /\ mem_log = <<>>

----------------------------------------------------------------------------
(* Further properties of allocation and deallocation *)

\* regs2 has the regions of regs1, with the same bases and lengths
SameRegions(regs1, regs2) ==
    /\ Len(regs1) = Len(regs2)
    /\ \A r \in 1..Len(regs1) :
         /\ regs1[r].base = regs2[r].base
         /\ RegionLen(regs1[r]) = RegionLen(regs2[r])

\* C33: a stage-2 allocation of n frames of size S that returns a range
\* returns [start, start + (n - 1) * S]; the range covers n * (S / 4KiB)
\* frames of one region at consecutive indices, each of them was Free and is
\* Allocated afterwards, and every other frame of every region keeps its
\* state.
C33_SuccessMarksExactlyTheRange ==
    [][(stage = "Stage2" /\ IsAllocCall(ret') /\ IsSome(ret'.res)) =>
          LET S == ret'.size
              range == ReturnedRange(ret')
              units == RangeUnits(range, S)
          IN  /\ range.end = range.start + (ret'.n - 1) * S
              /\ Cardinality(units) = ret'.n * small_frames_per_frame(S)
              /\ SameRegions(regions, regions')
              /\ \A a \in units : IsSome(find_frame_location(regions, a))
              /\ \A r \in 1..Len(regions) : \A i \in 0..(RegionLen(regions[r]) - 1) :
                   IF regions[r].base + i * Size4KiB \in units
                   THEN /\ FrameAt(regions[r], i) = Free
                        /\ FrameAt(regions'[r], i) = Allocated
                   ELSE FrameAt(regions'[r], i) = FrameAt(regions[r], i)
      ]_vars

\* allocate_frames::<Size2MiB>(2) returned a range: its four 4KiB frames are
\* Allocated and the region behind it is still Free
C33_Witness ==
    /\ stage = "Stage2"
    /\ ret.op = "allocate_frames" /\ ret.size = Size2MiB /\ ret.n = 2 /\ IsSome(ret.res)
    /\ Unwrap(ret.res).end = Unwrap(ret.res).start + Size2MiB
    /\ \A a \in RangeUnits(Unwrap(ret.res), Size2MiB) : UnitState(regions, a) = Allocated
    /\ Len(regions) = 2
    /\ \A i \in 0..(RegionLen(regions[2]) - 1) : FrameAt(regions[2], i) = Free

\* the Free runs of `count` frames inside one region whose start address is a
\* multiple of S, as positions <<region_idx, frame_idx>>
AddressAlignedRuns(regs, S, count) ==
    UNION { { <<r, i>> : i \in { j \in 0..(RegionLen(regs[r + 1]) - 1) :
                                   /\ (regs[r + 1].base + j * Size4KiB) % S = 0
                                   /\ run_fits(regs[r + 1], j, count)
                                   /\ all_free(regs[r + 1], j, count) } }
            : r \in 0..(Len(regs) - 1) }

\* the same with the alignment taken on the region-local frame index
IndexAlignedRuns(regs, S, count) ==
    UNION { { <<r, i>> : i \in { j \in 0..(RegionLen(regs[r + 1]) - 1) :
                                   /\ j % small_frames_per_frame(S) = 0
                                   /\ run_fits(regs[r + 1], j, count)
                                   /\ all_free(regs[r + 1], j, count) } }
            : r \in 0..(Len(regs) - 1) }

\* the lexicographically smallest position of a non-empty set
Lowest(positions) == CHOOSE p \in positions : \A q \in positions : ~LexLess(q, p)

\* the address of a position
AddressOf(regs, p) == regs[p[1] + 1].base + p[2] * Size4KiB

\* every frame outside the run of `count` frames at position p has in regs2
\* the state it has in regs1
OnlyRunChanged(regs1, regs2, p, count) ==
    /\ SameRegions(regs1, regs2)
    /\ \A r \in 1..Len(regs1) : \A i \in 0..(RegionLen(regs1[r]) - 1) :
         (r - 1 = p[1] /\ p[2] <= i /\ i < p[2] + count)
         \/ FrameAt(regs2[r], i) = FrameAt(regs1[r], i)

\* C34 as stated: whenever some region holds an aligned Free run of
\* n * (S / 4KiB) frames, allocate_frames::<S>(n) returns the one in the
\* lowest region at the lowest frame index and leaves every frame outside it
\* as it was.
C34_Original ==
    [][(stage = "Stage2" /\ IsAllocOfSome(ret')) =>
          LET S == ret'.size
              count == ret'.n * small_frames_per_frame(S)
              runs == AddressAlignedRuns(regions, S, count)
          IN  runs # {} =>
                /\ IsSome(ret'.res)
                /\ ReturnedRange(ret').start = AddressOf(regions, Lowest(runs))
                /\ OnlyRunChanged(regions, regions', Lowest(runs), count)
      ]_vars

\* C34 (what the code does): allocate_frames::<S>(n), n >= 1, takes the
\* Free run of n * (S / 4KiB) frames in the lowest region at the lowest frame
\* index among those that start at a region-local index that is a multiple
\* of S / 4KiB.  It marks that run Allocated and leaves every other frame as
\* it was; it returns the run when its start address is a multiple of S, and
\* none when it is not.  Without such a run it returns none and changes
\* nothing.  In regions whose base is a multiple of S this is first-fit over
\* the address-aligned runs.
C34_FirstFitByLocalIndex ==
    [][(stage = "Stage2" /\ IsAllocOfSome(ret')) =>
          LET S == ret'.size
              count == ret'.n * small_frames_per_frame(S)
              runs == IndexAlignedRuns(regions, S, count)
          IN  /\ RegionBasesAligned(regions, S) => runs = AddressAlignedRuns(regions, S, count)
              /\ IF runs = {}
                 THEN ret'.res = None /\ regions' = regions /\ first_free' = first_free
                 ELSE LET p == Lowest(runs)
                          start == AddressOf(regions, p)
                      IN  /\ OnlyRunChanged(regions, regions', p, count)
                          /\ \A i \in p[2]..(p[2] + count - 1) :
                               FrameAt(regions'[p[1] + 1], i) = Allocated
                          /\ IF start % S = 0
                             THEN /\ IsSome(ret'.res)
                                  /\ ReturnedRange(ret').start = start
                             ELSE ret'.res = None
      ]_vars

\* a 2MiB allocation after a 4KiB allocation at frame 0 of a region at
\* address 0: it returned the frame at the first 2MiB boundary, and the 4KiB
\* frame it skipped is still Free
C34_Witness ==
    /\ stage = "Stage2" /\ Len(regions) >= 1 /\ regions[1].base = 0
    /\ ret.op = "allocate_frames" /\ ret.size = Size2MiB /\ ret.n = 1
    /\ ret.res = Some([start |-> Size2MiB, end |-> Size2MiB])
    /\ FrameAt(regions[1], 0) = Allocated
    /\ FrameAt(regions[1], 1) = Free
    /\ \A i \in 2..(RegionLen(regions[1]) - 1) : FrameAt(regions[1], i) = Allocated

\* C35 as stated: an allocation that returns none leaves every frame state
\* and first_free as they were.
C35_Original ==
    [][(stage = "Stage2" /\ IsAllocCall(ret') /\ ret'.res = None /\ ~ret'.panic) =>
          /\ regions' = regions
          /\ first_free' = first_free
      ]_vars

\* C35 (what the code does): an allocation that returns none leaves the
\* manager unchanged when every region base is a multiple of S, and in any
\* case when no Free run starts at a region-local index that is a multiple of
\* S / 4KiB.  Otherwise the lowest such run starts at an address that is not
\* a multiple of S, and the call has marked exactly that run Allocated; no
\* returned range covers those frames.
C35_NoneAfterMarkingMisalignedRun ==
    [][(stage = "Stage2" /\ IsAllocCall(ret') /\ ret'.res = None /\ ~ret'.panic) =>
          LET S == ret'.size
              count == ret'.n * small_frames_per_frame(S)
              runs == IndexAlignedRuns(regions, S, count)
          IN  IF RegionBasesAligned(regions, S) \/ ret'.n = 0 \/ runs = {}
              THEN regions' = regions /\ first_free' = first_free
              ELSE LET p == Lowest(runs) IN
                   /\ AddressOf(regions, p) % S # 0
                   /\ OnlyRunChanged(regions, regions', p, count)
                   /\ \A i \in p[2]..(p[2] + count - 1) :
                        /\ FrameAt(regions[p[1] + 1], i) = Free
                        /\ FrameAt(regions'[p[1] + 1], i) = Allocated
                        /\ owned'[AddressOf(regions, <<p[1], i>>)] = 0
      ]_vars

\* allocate_frame::<Size2MiB> returned none in a region that starts one 4KiB
\* frame above a 2MiB boundary: the first two frames of the region are
\* Allocated, nobody holds them, and first_free has moved behind them
C35_Witness ==
    /\ stage = "Stage2" /\ Len(regions) >= 1 /\ regions[1].base = Size4KiB
    /\ ret.op = "allocate_frame" /\ ret.size = Size2MiB /\ ret.res = None /\ ~ret.panic
    /\ FrameAt(regions[1], 0) = Allocated /\ FrameAt(regions[1], 1) = Allocated
    /\ owned[Size4KiB] = 0 /\ owned[2 * Size4KiB] = 0
    /\ first_free = Some(RegionFrameIndex(0, 2))

\* C36: when allocate_frames::<S>(n) returns a range and the next call is
\* deallocate_frames of that range, every frame state and first_free are
\* afterwards what they were before the allocation, and the deallocation
\* returns the range (none for the empty range of n = 0).
C36_AllocateDeallocateRoundTrip ==
    trip.at = "returned" =>
        /\ regions = trip.regions
        /\ first_free = trip.first_free
        /\ ret.op = "deallocate_frames" /\ ret.arg = trip.range /\ ~ret.panic
        /\ ret.res = IF Unwrap(trip.range).end < Unwrap(trip.range).start THEN None
                     ELSE trip.range

\* a 2MiB frame was allocated behind a Free 4KiB frame that the search
\* skipped, and handed back: first_free points at the skipped frame as before
C36_Witness ==
    /\ trip.at = "returned"
    /\ trip.size = Size2MiB
    /\ trip.range = Some([start |-> Size2MiB, end |-> Size2MiB])
    /\ trip.first_free = Some(RegionFrameIndex(0, 1))
    /\ first_free = Some(RegionFrameIndex(0, 1))
    /\ FrameAt(regions[1], 0) = Allocated
    /\ \A i \in 1..(RegionLen(regions[1]) - 1) : FrameAt(regions[1], i) = Free

----------------------------------------------------------------------------
(* Properties of the slab shared by several threads *)

\* the slot that index i names: slot i % N of the segment at chain position
\* i / N
SlotAt(i) == Slot(ChainSeg(IndexOf(i).segment), IndexOf(i).offset)

\* C37: while the slab lives, a chain position that holds a segment holds
\* that segment from then on, and every get(i), every try_get(i) that returns
\* Some and the i-th item of every iterator, on whichever thread and after
\* whichever interleaving, is slot i % N of the segment at chain position
\* i / N.  So all of them name one slot, and growth of the chain neither
\* moves nor replaces nor removes it.
C37_OneSlotPerIndex ==
    /\ []((slab_state = "alive" /\ IsSome(slab_ret.result)) =>
            /\ ChainSeg(IndexOf(slab_ret.index).segment) # Null
            /\ Unwrap(slab_ret.result) = SlotAt(slab_ret.index))
    /\ [][slab_state' = "alive" =>
            \A k \in 0..(MaxIndex \div SegmentSize) :
                ChainSeg(k) # Null => ChainSeg(k)' = ChainSeg(k)]_vars

\* one thread lost the race for the second segment, and its get(N) returned
\* the first slot of the segment the other thread linked, while that thread
\* is still on its way to a later segment
C37_Witness ==
    /\ slab_state = "alive"
    /\ slab_ret = SlabCall("get", SegmentSize, Some(SlotAt(SegmentSize)))
    /\ \E s \in SegIds : frees[s] = 1
    /\ \E t \in Threads : th[t].op = "get" /\ th[t].pc # "idle" /\ th[t].cur = ChainSeg(1)

\* thread t is inside get and has made h hops
HopsOf(t) == IndexOf(th[t].index).segment - th[t].remaining

\* C38: Segment::next never retries.  A thread that has issued its
\* compare_exchange for a hop does not allocate or compare_exchange again
\* before the hop is made: it goes on to the segment it linked, or frees its
\* own segment and re-reads the pointer, which is then not null, and goes on
\* to the segment it read.  So no thread dereferences a null pointer, every
\* hop moves one position along the chain, and get(index) returns after
\* exactly index / N hops.
C38_NextNeverRetries ==
    /\ [](\A t \in Threads :
            /\ th[t].pc # "ub"
            /\ th[t].pc = "reload" => seg_next[th[t].cur] # Null
            /\ (th[t].op = "get" /\ th[t].pc # "idle") =>
                 /\ th[t].remaining >= 0
                 /\ th[t].cur = ChainSeg(HopsOf(t)))
    /\ [][\A t \in Threads :
            /\ (th[t].pc \in {"cas", "free_loser", "reload"} /\ th'[t] # th[t]) =>
                 /\ th'[t].pc \in {"free_loser", "reload", "get"}
                 /\ th'[t].pc = "get" =>
                      /\ th'[t].remaining = th[t].remaining - 1
                      /\ th'[t].cur = seg_next'[th[t].cur]
                      /\ th'[t].cur # Null
                 /\ th'[t].pc # "get" => th'[t].remaining = th[t].remaining
            /\ (th[t].pc = "get" /\ th'[t].pc = "idle") =>
                 /\ th[t].remaining = 0
                 /\ slab_ret' = SlabCall("get", th[t].index,
                                         Some(Slot(ChainSeg(IndexOf(th[t].index).segment),
                                                   IndexOf(th[t].index).offset)))]_vars

\* a thread lost the race for the third segment of the chain: it has freed
\* its own segment and is about to re-read the pointer another thread set
C38_Witness ==
    /\ slab_state = "alive"
    /\ \E t \in Threads :
         /\ th[t].pc = "reload" /\ th[t].remaining = 1
         /\ th[t].cur = ChainSeg(1)
         /\ seg_next[th[t].cur] = ChainSeg(2) /\ ChainSeg(2) # Null
    /\ \E s \in SegIds : frees[s] = 1

----------------------------------------------------------------------------
(* The order of the steps of load *)

\* the calls to MemoryApi::allocate at a fixed address: those of the LOAD
\* headers, in the order they were made
LoadAllocateCalls == SelectSeq(mem_log, LAMBDA c : c.op = "allocate" /\ IsSome(c.location))

\* the LOAD headers in front of position k in the file's LOAD headers, as a set
LoadHeadersBefore(k) == { LoadHeaders[i] : i \in 1..Min(k - 1, Len(LoadHeaders)) }

\* every LOAD header in front of position k has its allocation in the image
LoadedBefore(k) == { a.segment : a \in ImageAllocations } = LoadHeadersBefore(k)

\* C39: load requests the allocations of the LOAD headers in file order, one
\* header at a time: the allocation of the k-th is requested when the k - 1
\* before it are in the image, and a permission transition is requested for
\* a segment only after its allocation was filled and its flags passed the
\* W+X check.  When load stops at the k-th LOAD header without success, no
\* call was made for a later LOAD header or for a TLS header.  A call for
\* the TLS header is made only when every LOAD header is in the image.
C39_LoadHeadersInFileOrder ==
    /\ [](/\ SegmentsOf(LoadAllocateCalls) = SubSeq(LoadHeaders, 1, Len(LoadAllocateCalls))
          /\ \A i \in 1..Len(mem_log) :
               mem_log[i].segment \in LoadHeadersBefore(elf_idx + 1)
                                      \cup { TlsHeaders[j] : j \in 1..Len(TlsHeaders) }
          /\ \A i \in 1..Len(mem_log) :
               mem_log[i].segment \notin LoadHeadersBefore(Len(LoadHeaders) + 1) =>
                  /\ elf_idx = Len(LoadHeaders) + 1
                  /\ LoadedBefore(Len(LoadHeaders) + 1)
                  /\ Len(TlsHeaders) = 1 /\ mem_log[i].segment = TlsHeaders[1]
                  /\ \A j \in 1..Len(mem_log) : IsSome(mem_log[j].location) => j < i
          /\ (elf_pc = "done" /\ elf_result.kind # "Ok" /\ elf_idx <= Len(LoadHeaders)) =>
               /\ LoadedBefore(elf_idx)
               /\ image.tls_allocation = None)
    /\ [][mem_log' # mem_log =>
            LET call == mem_log'[Len(mem_log')] IN
            /\ mem_log' = Append(mem_log, call)
            /\ IF call.op = "allocate"
               THEN /\ CallsFor(call.segment) = <<>>
                    /\ elf_alloc = None
                    /\ IsSome(call.location) =>
                         (call.segment = LoadHeaders[elf_idx] /\ LoadedBefore(elf_idx))
               ELSE /\ SelectSeq(mem_log, LAMBDA c : c.segment = call.segment)
                         = <<AllocateCall(call.segment, Unwrap(elf_alloc).location,
                                          HeaderOf(Unwrap(elf_alloc)))>>
                    /\ Unwrap(elf_alloc).segment = call.segment
                    /\ FilledFrom(Unwrap(elf_alloc), HeaderOf(Unwrap(elf_alloc)))
                    /\ ~executable_and_writable(HeaderOf(Unwrap(elf_alloc)).flags)]_vars

\* the second of two LOAD headers could not be allocated: the first one is
\* loaded, the log ends with the failed request, and load returned
\* AllocationFailed
C39_Witness ==
    /\ elf_result = LoadErr("AllocationFailed")
    /\ Len(LoadHeaders) = 2 /\ elf_idx = 2
    /\ Len(mem_log) = 3
    /\ mem_log[1].op = "allocate" /\ mem_log[1].segment = 1
    /\ mem_log[2].op = "make_readonly" /\ mem_log[2].segment = 1
    /\ mem_log[3].op = "allocate" /\ mem_log[3].segment = 2
    /\ Len(image.readonly_allocations) = 1

\* the lowest fd number a table has no entry for
LowestAbsent(table, num) ==
    /\ num \notin Keys(table)
    /\ \A k \in 0..(num - 1) : k \in Keys(table)

\* core c leaves open: the step that inserts and returns Ok(num)
OpenReturns(c) == fd_cores[c].pc = "insert" /\ fd_cores'[c].pc = "idle"

\* C40, as stated: no two open descriptors of a process share a number, and
\* the number open returns is the lowest one absent from the table when it is
\* inserted, so that the insert never replaces an entry.
C40_Original ==
    /\ [](\A d1, d2 \in fd_live : d1[1] = d2[1] => d1 = d2)
    /\ [][\A c \in Cores : OpenReturns(c) => LowestAbsent(fd_table, fd_cores[c].num)]_vars

\* C40, what open does: the number is the lowest one absent from the table
\* when the table was read; the insert stores the description under that
\* number whatever the table holds by then, and open returns it; the number
\* is still the lowest absent one at the insert when the table did not change
\* in between.  The table itself holds one entry per number.
C40_LowestAbsentWhenRead ==
    /\ [](\A e1, e2 \in fd_table : e1[1] = e2[1] => e1 = e2)
    /\ [](\A c \in Cores : fd_cores[c].pc = "insert"
              => LowestAbsent(fd_cores[c].seen, fd_cores[c].num))
    /\ [][\A c \in Cores : OpenReturns(c) =>
              /\ fd_ret' = FdCall("open", c, fd_cores[c].num, fd_cores[c].ofd)
              /\ <<fd_cores[c].num, fd_cores[c].ofd>> \in fd_table'
              /\ \A e \in fd_table : e[1] # fd_cores[c].num => e \in fd_table'
              /\ fd_table = fd_cores[c].seen => LowestAbsent(fd_table, fd_cores[c].num)]_vars

\* two opens returned the same number to the process and the table holds
\* only the later one
C40_Witness ==
    \E d1, d2 \in fd_live :
        /\ d1[1] = d2[1] /\ d1[2] # d2[2]
        /\ d1 \notin fd_table /\ d2 \in fd_table
        /\ fd_ret.op = "open" /\ fd_ret.ofd = d2[2]

====
